---- MODULE Spec2Model ----
(***************************************************************************)
(* The semantic chunking pipeline of Synapse: preprocessor, detectors and  *)
(* chunker.  A string is a sequence of one-character strings, so that      *)
(* length, slicing, splitting and the regular expressions of the source    *)
(* are computed character by character.                                     *)
(***************************************************************************)
EXTENDS Integers, Sequences, FiniteSets, TLC

VARIABLES pc, text, recleaned, calls, heap, pageNumber, config, cleanedText, blocks, blockPos,
          allChunks, chunkIndex, chunksWithOverlap, finalChunks, stats,
          pages, pagePos, multiChunks

vars == <<pc, text, recleaned, calls, heap, pageNumber, config, cleanedText, blocks, blockPos,
          allChunks, chunkIndex, chunksWithOverlap, finalChunks, stats,
          pages, pagePos, multiChunks>>

-----------------------------------------------------------------------------
(* Character classes of the regular expressions.                           *)

LowerSeq == <<"a","b","c","d","e","f","g","h","i","j","k","l","m",
              "n","o","p","q","r","s","t","u","v","w","x","y","z">>
UpperSeq == <<"A","B","C","D","E","F","G","H","I","J","K","L","M",
              "N","O","P","Q","R","S","T","U","V","W","X","Y","Z">>
Range(f) == {f[i] : i \in DOMAIN f}
Lower == Range(LowerSeq)
Upper == Range(UpperSeq)
Digit == {"0","1","2","3","4","5","6","7","8","9"}
\* \w
WordCh == Lower \cup Upper \cup Digit \cup {"_"}
\* \s ("\f" is written FF, "\r" is written CR: one character each)
Space == {" ", "\n", "\t", "CR", "FF"}
\* [\u200B-\u200D\uFEFF] is written ZW, \u00AD is written SHY
ZeroWidth == {"ZW"}
SoftHyphen == {"SHY"}
\* [.!?]
Terminal == {".", "!", "?"}
\* [\w.-]
MailCh == WordCh \cup {".", "-"}

ToUpperCh(c) ==
  IF c \in Lower THEN UpperSeq[CHOOSE i \in DOMAIN LowerSeq : LowerSeq[i] = c] ELSE c
ToLowerCh(c) ==
  IF c \in Upper THEN LowerSeq[CHOOSE i \in DOMAIN UpperSeq : UpperSeq[i] = c] ELSE c
toUpperCase(s) == [i \in 1..Len(s) |-> ToUpperCh(s[i])]
toLowerCase(s) == [i \in 1..Len(s) |-> ToLowerCh(s[i])]

-----------------------------------------------------------------------------
(* String primitives of JavaScript used by the source.                     *)

\* the concatenation of the strings pieces[lo], ..., pieces[hi]
RECURSIVE FlattenRange(_, _, _)
FlattenRange(pieces, lo, hi) ==
  IF lo > hi THEN <<>>
  ELSE IF lo = hi THEN pieces[lo]
  ELSE LET mid == (lo + hi) \div 2
       IN FlattenRange(pieces, lo, mid) \o FlattenRange(pieces, mid + 1, hi)

Flatten(pieces) == FlattenRange(pieces, 1, Len(pieces))

\* the characters of s at the positions satisfying Keep, in order
KeepAt(s, Keep(_)) ==
  Flatten([i \in 1..Len(s) |-> IF Keep(i) THEN <<s[i]>> ELSE <<>>])

\* String.prototype.trim
trim(s) ==
  LET ns == {i \in 1..Len(s) : s[i] \notin Space}
  IN IF ns = {} THEN <<>>
     ELSE SubSeq(s, CHOOSE i \in ns : \A j \in ns : i <= j,
                    CHOOSE i \in ns : \A j \in ns : i >= j)

\* s.split(sep) for a one-character separator
split(s, sep) ==
  LET P == {i \in 1..Len(s) : s[i] = sep}
      n == Cardinality(P)
      \* pos[k]: position of the k-th separator; pos[0] = 0, pos[n+1] = Len+1
      pos[k \in 0..(n+1)] ==
        IF k = 0 THEN 0
        ELSE IF k = n + 1 THEN Len(s) + 1
        ELSE CHOOSE p \in P : Cardinality({q \in P : q < p}) = k - 1
  IN [k \in 1..(n+1) |-> SubSeq(s, pos[k-1] + 1, pos[k] - 1)]

\* lines.join(sep)
join(ls, sep) ==
  Flatten([i \in 1..Len(ls) |-> IF i = 1 THEN ls[1] ELSE sep \o ls[i]])

\* s.startsWith(p)
startsWith(s, p) == Len(p) <= Len(s) /\ SubSeq(s, 1, Len(p)) = p

\* a slice that takes the whole string
sliceAll(s, n) == s

\* s.slice(-n) for n >= 0 (slice(-0) is slice(0): the whole string)
sliceLast(s, n) ==
  IF n = 0 THEN s
  ELSE IF n >= Len(s) THEN s ELSE SubSeq(s, Len(s) - n + 1, Len(s))

\* s.slice(0, n)
sliceFirst(s, n) == IF n >= Len(s) THEN s ELSE SubSeq(s, 1, n)

\* s.includes(c) for a one-character c
includes(s, c) == \E i \in 1..Len(s) : s[i] = c

\* Math.min / Math.max over a non-empty sequence of numbers
MinOf(ns) == CHOOSE m \in Range(ns) : \A x \in Range(ns) : m <= x
MaxOf(ns) == CHOOSE m \in Range(ns) : \A x \in Range(ns) : m >= x
SumOf(ns) ==
  LET F[i \in 0..Len(ns)] == IF i = 0 THEN 0 ELSE F[i-1] + ns[i]
  IN F[Len(ns)]

-----------------------------------------------------------------------------
(* Regular-expression matching by position sets: each combinator maps a    *)
(* set of positions (1..Len+1) where a match may stand to the set of       *)
(* positions where it may stand after consuming its pattern.               *)

\* one or more characters of class C
Plus(s, P, C) ==
  {q \in 2..(Len(s)+1) : \E p \in P : p < q /\ \A i \in p..(q-1) : s[i] \in C}
\* zero or more characters of class C
Star(s, P, C) == P \cup Plus(s, P, C)
\* exactly one character of class C
One(s, P, C) == {p + 1 : p \in {q \in P : q <= Len(s) /\ s[q] \in C}}
\* at most one character of class C
Opt(s, P, C) == P \cup One(s, P, C)
\* the literal w, case-insensitively (w is given in lower case)
LitI(s, P, w) ==
  {p + Len(w) : p \in {q \in P : q + Len(w) - 1 <= Len(s)
                              /\ toLowerCase(SubSeq(s, q, q + Len(w) - 1)) = w}}
\* the literal w, case-sensitively
Lit(s, P, w) ==
  {p + Len(w) : p \in {q \in P : q + Len(w) - 1 <= Len(s)
                              /\ SubSeq(s, q, q + Len(w) - 1) = w}}
\* $ on a string without the m flag
AtEnd(s, P) == (Len(s) + 1) \in P

-----------------------------------------------------------------------------
(* Preprocessor.                                                            *)

\* the first position >= i whose character is not of class C (Len+1 if none)
NextNot(s, i, C) ==
  CHOOSE j \in i..(Len(s)+1) :
    /\ (j = Len(s) + 1 \/ s[j] \notin C)
    /\ \A k \in i..(j-1) : s[k] \in C

\* every character c replaced by the string Repl(c)
MapChars(s, Repl(_)) == Flatten([i \in 1..Len(s) |-> Repl(s[i])])

normalizeWhitespace(t) ==
  LET a == KeepAt(t, LAMBDA i : ~(t[i] = "CR" /\ i < Len(t) /\ t[i+1] = "\n"))
      b == [i \in 1..Len(a) |-> IF a[i] = "CR" THEN "\n" ELSE a[i]]
      c == KeepAt(b, LAMBDA i : ~(b[i] = " " /\ i > 1 /\ b[i-1] = " "))
      d == KeepAt(c, LAMBDA i : ~(c[i] = "\t" /\ i > 1 /\ c[i-1] = "\t"))
  IN KeepAt(d, LAMBDA i : ~(d[i] = "\n" /\ i > 3 /\ d[i-1] = "\n"
                             /\ d[i-2] = "\n" /\ d[i-3] = "\n"))

\* .replace(/(\w)-\s+(\w)/g, "$1$2"): matches are found left to right and do
\* not overlap (the second \w of a match is consumed by it)
JoinHyphens(s) ==
  LET n == Len(s)
      \* the position of the second \w of a match that starts at i
      End(i) == NextNot(s, i + 2, Space)
      \* the places where the pattern matches
      cand == {i \in 1..n : /\ s[i] \in WordCh
                            /\ i + 1 <= n /\ s[i+1] = "-"
                            /\ End(i) > i + 2
                            /\ End(i) <= n /\ s[End(i)] \in WordCh}
      \* the matches the scan takes: a place is skipped when the match taken
      \* before it has consumed its first character
      taken[i \in cand] == ~\E j \in cand : j < i /\ End(j) >= i /\ taken[j]
      starts == {i \in cand : taken[i]}
  IN Flatten([i \in 1..n |->
                IF i \in starts THEN <<s[i], s[End(i)]>>
                ELSE IF \E j \in starts : j < i /\ i <= End(j) THEN <<>>
                ELSE <<s[i]>>])

\* .replace(/([a-z])([A-Z])/g, "$1 $2")
SplitCamel(s) ==
  Flatten([i \in 1..Len(s) |->
             IF i > 1 /\ s[i-1] \in Lower /\ s[i] \in Upper
               THEN <<" ", s[i]>> ELSE <<s[i]>>])

removePDFArtifacts(t) ==
  LET a == SelectSeq(t, LAMBDA c : c \notin ZeroWidth)
      b == SelectSeq(a, LAMBDA c : c \notin SoftHyphen)
      c == SplitCamel(JoinHyphens(b))
  IN MapChars(c, LAMBDA ch : IF ch = "FF" THEN <<"\n", "\n">> ELSE <<ch>>)

\* /^(page\s+)?\d+(\s*(\/|of)\s*\d+)?$/i
IsPageOfLine(s) ==
  LET p1 == {1} \cup Plus(s, LitI(s, {1}, <<"p","a","g","e">>), Space)
      p2 == Plus(s, p1, Digit)
      sp == Star(s, p2, Space)
      p3 == LitI(s, sp, <<"/">>) \cup LitI(s, sp, <<"o","f">>)
      p4 == Plus(s, Star(s, p3, Space), Digit)
  IN AtEnd(s, p2 \cup p4)

\* /^\d{1,3}$/
IsShortNumber(s) == Len(s) \in 1..3 /\ \A i \in 1..Len(s) : s[i] \in Digit

removePageNumbers(t) ==
  join(SelectSeq(split(t, "\n"),
                 LAMBDA line : ~IsPageOfLine(trim(line)) /\ ~IsShortNumber(trim(line))),
       <<"\n">>)

\* /^https?:\/\/[^\s]+$/
IsUrlLine(s) ==
  LET p1 == Opt(s, Lit(s, {1}, <<"h","t","t","p">>), {"s"})
      p2 == Lit(s, p1, <<":","/","/">>)
  IN AtEnd(s, {q \in 2..(Len(s)+1) :
                 \E p \in p2 : p < q /\ \A i \in p..(q-1) : s[i] \notin Space})

\* [\w.-]+@[\w.-]+\.\w+ from the positions P
MailFrom(s, P) ==
  Plus(s, Lit(s, Plus(s, Lit(s, Plus(s, P, MailCh), <<"@">>), MailCh), <<".">>), WordCh)

\* /^[\w.-]+@[\w.-]+\.\w+$/
IsMailLine(s) == AtEnd(s, MailFrom(s, {1}))

removeStandaloneLinks(t) ==
  join(SelectSeq(split(t, "\n"),
                 LAMBDA line : ~IsUrlLine(trim(line)) /\ ~IsMailLine(trim(line))),
       <<"\n">>)

removeRepeatedSections(t) ==
  LET lines == split(t, "\n")
      Counted(i) == Len(trim(lines[i])) > 5 /\ Len(trim(lines[i])) < 100
      lineFrequency(l) ==
        Cardinality({i \in 1..Len(lines) : Counted(i) /\ trim(lines[i]) = l})
      repeatedLines ==
        {trim(lines[i]) : i \in {j \in 1..Len(lines) :
                                   Counted(j) /\ lineFrequency(trim(lines[j])) > 2}}
  IN IF repeatedLines # {}
     THEN join(SelectSeq(lines, LAMBDA line : trim(line) \notin repeatedLines),
               <<"\n">>)
     ELSE t

\* the bullet glyph class: BULLET is \u2022, BLACKCIRCLE is \u25CF,
\* WHITECIRCLE is \u25CB, TRIANGLE is \u25BA
BulletGlyph == {"BULLET", "BLACKCIRCLE", "WHITECIRCLE", "TRIANGLE"}
\* the dash class [-\u2013\u2014]: ENDASH is \u2013
DashGlyph == {"-", "ENDASH"}

\* ^ under the m flag
LineStart(s, i) == i = 1 \/ s[i-1] \in {"\n", "CR"}

\* .replace(/^[\s]*[G]+[\s]+/gm, "\u2022 ") for a glyph class G
NormalizeMarker(s, G) ==
  LET n == Len(s)
      A(i) == NextNot(s, i, Space)
      B(i) == NextNot(s, A(i), G)
      \* the first position after a match that starts at i
      E(i) == NextNot(s, B(i), Space)
      cand == {i \in 1..n : LineStart(s, i) /\ B(i) > A(i) /\ E(i) > B(i)}
      \* the matches the scan takes, left to right and without overlap
      taken[i \in cand] == ~\E j \in cand : j < i /\ E(j) > i /\ taken[j]
      starts == {i \in cand : taken[i]}
  IN Flatten([i \in 1..n |->
                IF i \in starts THEN <<"BULLET", " ">>
                ELSE IF \E j \in starts : j < i /\ i < E(j) THEN <<>>
                ELSE <<s[i]>>])

\* .replace(/^[\s]*(\d+)[\.)]\s+/gm, "$1. ")
NormalizeNumbered(s) ==
  LET n == Len(s)
      A(i) == NextNot(s, i, Space)
      \* the position of the [.)] of a match that starts at i
      B(i) == NextNot(s, A(i), Digit)
      \* the first position after a match that starts at i
      E(i) == NextNot(s, B(i) + 1, Space)
      cand == {i \in 1..n : /\ LineStart(s, i) /\ B(i) > A(i)
                            /\ B(i) <= n /\ s[B(i)] \in {".", ")"}
                            /\ E(i) > B(i) + 1}
      \* the matches the scan takes, left to right and without overlap
      taken[i \in cand] == ~\E j \in cand : j < i /\ E(j) > i /\ taken[j]
      starts == {i \in cand : taken[i]}
  IN Flatten([i \in 1..n |->
                IF i \in starts THEN SubSeq(s, A(i), B(i) - 1) \o <<".", " ">>
                ELSE IF \E j \in starts : j < i /\ i < E(j) THEN <<>>
                ELSE <<s[i]>>])

normalizeLists(t) ==
  NormalizeNumbered(NormalizeMarker(NormalizeMarker(t, BulletGlyph), DashGlyph))

\* options: records of the three flags the callers of this repository set
\* (fixOCR is never true in them)
\* the three optional passes of preprocessText
OptPageNumbers(processed, options) ==
  IF options.removePageNumbers THEN removePageNumbers(processed) ELSE processed
OptLinks(processed, options) ==
  IF options.removeLinks THEN removeStandaloneLinks(processed) ELSE processed
OptRepeated(processed, options) ==
  IF options.removeRepeated THEN removeRepeatedSections(processed) ELSE processed

preprocessText(t, options) ==
  trim(normalizeWhitespace(normalizeLists(
    OptRepeated(OptLinks(OptPageNumbers(
      removePDFArtifacts(normalizeWhitespace(t)), options), options), options))))

-----------------------------------------------------------------------------
(* Detectors.  A confidence score/maxScore is kept as the pair of its      *)
(* numerator and denominator; Above(c, a, b) is c > a/b.                   *)

Conf(score, maxScore) == [num |-> score, den |-> maxScore]
Above(c, a, b) == c.num * b > a * c.den

\* text.split("\n").filter((l) => l.trim().length > 0)
NonBlankLines(t) == SelectSeq(split(t, "\n"), LAMBDA l : Len(trim(l)) > 0)

CountLines(lines, Test(_)) == Cardinality({i \in 1..Len(lines) : Test(lines[i])})

Abs(x) == IF x < 0 THEN -x ELSE x

\* /\s{3,}/.test(l)
HasThreeSpaces(l) ==
  \E i \in 1..(Len(l) - 2) : l[i] \in Space /\ l[i+1] \in Space /\ l[i+2] \in Space

\* /\d+/.test(l)
HasDigit(l) == \E i \in 1..Len(l) : l[i] \in Digit

detectTable(t) ==
  LET lines == NonBlankLines(t)
      n == Len(lines)
      pipeLines == CountLines(lines, LAMBDA l : includes(l, "|"))
      tabLines == CountLines(lines, LAMBDA l : includes(l, "\t"))
      spacedLines == CountLines(lines, HasThreeSpaces)
      \* avgLength = total / n; variance = sum |len - avgLength| / n;
      \* variance < avgLength * 0.3, multiplied through by 10 * n * n
      total == SumOf([i \in 1..n |-> Len(lines[i])])
      spread == SumOf([i \in 1..n |-> Abs(Len(lines[i]) * n - total)])
      numericLines == CountLines(lines, HasDigit)
      score ==
          (IF pipeLines >= 3
             THEN 30 + (IF pipeLines * 10 > 7 * n THEN 20 ELSE 0) ELSE 0)
        + (IF tabLines >= 3 THEN 20 ELSE 0)
        + (IF spacedLines >= 3
             THEN 15 + (IF spacedLines * 10 > 6 * n THEN 10 ELSE 0) ELSE 0)
        + (IF 10 * spread < 3 * total * n THEN 15 ELSE 0)
        + (IF numericLines * 2 > n THEN 10 ELSE 0)
      confidence == Conf(score, 50 + 20 + 25 + 15 + 10)
  IN IF n < 2 THEN [isTable |-> FALSE, confidence |-> Conf(0, 1)]
     ELSE [isTable |-> Above(confidence, 4, 10), confidence |-> confidence]

\* /^\s*\d+[\.)]\s+/.test(l)
IsNumberedLine(l) ==
  Plus(l, One(l, Plus(l, Star(l, {1}, Space), Digit), {".", ")"}), Space) # {}

\* the bullet class of the list detector (\u2022 - * \u25CB \u25BA \u25AA)
ListBullet == {"BULLET", "-", "*", "WHITECIRCLE", "TRIANGLE"}

\* /^\s*[ListBullet]\s+/.test(l)
IsBulletLine(l) == Plus(l, One(l, Star(l, {1}, Space), ListBullet), Space) # {}

\* /^\s{2,}/.test(l)
IsIndentedLine(l) == Len(l) >= 2 /\ l[1] \in Space /\ l[2] \in Space

detectList(t) ==
  LET lines == NonBlankLines(t)
      n == Len(lines)
      numberedLines == CountLines(lines, IsNumberedLine)
      bulletLines == CountLines(lines, IsBulletLine)
      indentedLines == CountLines(lines, IsIndentedLine)
      score ==
          (IF numberedLines >= 2
             THEN 40 + (IF numberedLines * 10 > 7 * n THEN 20 ELSE 0) ELSE 0)
        + (IF bulletLines >= 2
             THEN 30 + (IF bulletLines * 10 > 7 * n THEN 15 ELSE 0) ELSE 0)
        + (IF indentedLines * 2 > n THEN 10 ELSE 0)
      confidence == Conf(score, 60 + 45 + 10)
  IN IF n < 2 THEN [isList |-> FALSE, confidence |-> Conf(0, 1)]
     ELSE [isList |-> Above(confidence, 35, 100), confidence |-> confidence]

headingKeywords ==
  { <<"s","u","m","m","a","r","y">>, <<"s","k","i","l","l","s">>,
    <<"e","x","p","e","r","i","e","n","c","e">>,
    <<"e","d","u","c","a","t","i","o","n">>,
    <<"p","r","o","j","e","c","t","s">>,
    <<"c","e","r","t","i","f","i","c","a","t","i","o","n","s">>,
    <<"a","b","o","u","t">>, <<"o","v","e","r","v","i","e","w">>,
    <<"b","a","c","k","g","r","o","u","n","d">>,
    <<"q","u","a","l","i","f","i","c","a","t","i","o","n","s">> }

\* /^[#*]{1,3}\s/.test(line) || /\*\*/.test(line)
HasMarkdownMark(line) ==
  \/ \E k \in 1..3 : /\ Len(line) > k
                     /\ \A i \in 1..k : line[i] \in {"#", "*"}
                     /\ line[k+1] \in Space
  \/ \E i \in 1..(Len(line) - 1) : line[i] = "*" /\ line[i+1] = "*"

detectHeading(t) ==
  LET lines == NonBlankLines(trim(t))
      line == lines[1]
      isAllCaps == line = toUpperCase(line) /\ \E i \in 1..Len(line) : line[i] \in Upper
      isTitleCase == Len(line) >= 2 /\ line[1] \in Upper /\ line[2] \in Lower
      score ==
          (IF Len(line) < 60 THEN 20 + (IF Len(line) < 40 THEN 10 ELSE 0) ELSE 0)
        + (IF isAllCaps THEN 30 ELSE IF isTitleCase THEN 20 ELSE 0)
        + (IF ~(line[Len(line)] \in Terminal) THEN 15 ELSE 0)
        + (IF \E w \in headingKeywords : LitI(line, {1}, w) # {} THEN 25 ELSE 0)
        + (IF HasMarkdownMark(line) THEN 20 ELSE 0)
      confidence == Conf(score, 30 + 30 + 15 + 25 + 20)
  IN IF Len(lines) # 1 THEN [isHeading |-> FALSE, confidence |-> Conf(0, 1)]
     ELSE [isHeading |-> Above(confidence, 4, 10), confidence |-> confidence]

\* the word alternatives of /^(confidential|draft|proprietary|copyright|\u00A9|\d{4})/i;
\* COPY is \u00A9
boilerplateWords ==
  { <<"c","o","n","f","i","d","e","n","t","i","a","l">>, <<"d","r","a","f","t">>,
    <<"p","r","o","p","r","i","e","t","a","r","y">>,
    <<"c","o","p","y","r","i","g","h","t">>, <<"COPY">> }

detectHeaderFooter(t) ==
  LET s == trim(t)
      \* /^(page\s+)?\d+(\s*\/\s*\d+)?$/i
      p1 == {1} \cup Plus(s, LitI(s, {1}, <<"p","a","g","e">>), Space)
      p2 == Plus(s, p1, Digit)
      p3 == Plus(s, Star(s, LitI(s, Star(s, p2, Space), <<"/">>), Space), Digit)
      \* /^(https?:\/\/|www\.|[\w.-]+@[\w.-]+\.\w+)$/i
      url == Lit(s, Opt(s, LitI(s, {1}, <<"h","t","t","p">>), {"s", "S"}),
                 <<":","/","/">>)
      www == LitI(s, {1}, <<"w","w","w",".">>)
  IN \/ AtEnd(s, p2 \cup p3)
     \/ /\ Len(s) < 30 /\ Len(s) > 0
        /\ \/ \E w \in boilerplateWords : LitI(s, {1}, w) # {}
           \/ Len(s) >= 4 /\ \A i \in 1..4 : s[i] \in Digit
     \/ AtEnd(s, url \cup www \cup MailFrom(s, {1}))

Block(t, type, confidence, startLine, endLine) ==
  [text |-> t, type |-> type, confidence |-> confidence,
   startLine |-> startLine, endLine |-> endLine]

\* a cascade that asks the list detector before the table detector
analyzeContentBlockListFirst(t, startLine, endLine) ==
  IF detectHeaderFooter(t) THEN Block(t, "text", Conf(0, 1), startLine, endLine)
  ELSE IF detectHeading(t).isHeading
    THEN Block(t, "heading", detectHeading(t).confidence, startLine, endLine)
  ELSE IF detectList(t).isList
    THEN Block(t, "list", detectList(t).confidence, startLine, endLine)
  ELSE IF detectTable(t).isTable
    THEN Block(t, "table", detectTable(t).confidence, startLine, endLine)
  ELSE Block(t, "text", Conf(1, 1), startLine, endLine)

analyzeContentBlock(t, startLine, endLine) ==
  LET headingResult == detectHeading(t)
      tableResult == detectTable(t)
      listResult == detectList(t)
  IN IF detectHeaderFooter(t) THEN Block(t, "text", Conf(0, 1), startLine, endLine)
     ELSE IF headingResult.isHeading
       THEN Block(t, "heading", headingResult.confidence, startLine, endLine)
     ELSE IF tableResult.isTable
       THEN Block(t, "table", tableResult.confidence, startLine, endLine)
     ELSE IF listResult.isList
       THEN Block(t, "list", listResult.confidence, startLine, endLine)
     ELSE Block(t, "text", Conf(1, 1), startLine, endLine)

\* text.split(/\n\n+/): the separators are the maximal runs of two or more "\n"
splitParagraphs(t) ==
  LET n == Len(t)
      IsSep(i) == /\ i \in 1..n /\ t[i] = "\n"
                  /\ ((i > 1 /\ t[i-1] = "\n") \/ (i < n /\ t[i+1] = "\n"))
      starts == {i \in 1..n : IsSep(i) /\ ~IsSep(i-1)}
      ends == {i \in 1..n : IsSep(i) /\ ~IsSep(i+1)}
      r == Cardinality(starts)
      Nth(S, k) == CHOOSE p \in S : Cardinality({q \in S : q < p}) = k - 1
      from[k \in 1..(r+1)] == IF k = 1 THEN 1 ELSE Nth(ends, k - 1) + 1
      to[k \in 1..(r+1)] == IF k = r + 1 THEN n ELSE Nth(starts, k) - 1
  IN [k \in 1..(r+1) |-> SubSeq(t, from[k], to[k])]

\* a loop that skips no paragraph; GracefulDegradation tells it from
\* SkipParagraph
SkipParagraphNever(trimmed) == FALSE

\* the skip of an empty paragraph: if (!trimmed) continue
SkipParagraph(trimmed) == trimmed = <<>>

\* a loop body that leaves the line counter where it was
pushBlockSameLine(st, block, lines) ==
  [blocks |-> IF Above(block.confidence, 0, 1)
                THEN Append(st.blocks, block) ELSE st.blocks,
   lineNumber |-> st.lineNumber]

\* a loop body that keeps every block, whatever its confidence
pushBlockAlways(st, block, lines) ==
  [blocks |-> Append(st.blocks, block), lineNumber |-> st.lineNumber + lines + 2]

\* the body of the loop for a paragraph that is not skipped
pushBlock(st, block, lines) ==
  [blocks |-> IF Above(block.confidence, 0, 1)
                THEN Append(st.blocks, block) ELSE st.blocks,
   lineNumber |-> st.lineNumber + lines + 2]

\* the lines of a trimmed paragraph: trimmed.split("\n").length
paragraphLines(trimmed) == Len(split(trimmed, "\n"))

\* one iteration of the loop over the paragraphs
segmentStep(st, trimmed) ==
  IF SkipParagraph(trimmed) THEN st
  ELSE pushBlock(st,
                 analyzeContentBlock(trimmed, st.lineNumber,
                                     st.lineNumber + paragraphLines(trimmed) - 1),
                 paragraphLines(trimmed))

segmentParagraphs(paragraphs) ==
  LET F[i \in 0..Len(paragraphs)] ==
        IF i = 0 THEN [blocks |-> <<>>, lineNumber |-> 0]
        ELSE segmentStep(F[i-1], trim(paragraphs[i]))
  IN F[Len(paragraphs)].blocks

segmentIntoBlocks(t) == segmentParagraphs(splitParagraphs(t))

-----------------------------------------------------------------------------
(* Chunker.  An undefined pageNumber is the empty sequence, a defined one  *)
(* the one-element sequence of the number.                                  *)

DEFAULT_CONFIG ==
  [maxChunkSize |-> 1000, overlapSize |-> 200, tableMaxSize |-> 2000,
   minChunkSize |-> 100]

Chunk(content, index, type, confidence) ==
  [content |-> content,
   metadata |-> [chunkIndex |-> index, pageNumber |-> <<>>, contentType |-> type,
                 confidence |-> confidence, hasOverlap |-> FALSE,
                 originalLength |-> Len(content)]]

\* the number of leading characters of the overlap text compared by the guard
OverlapGuardLen == 50

\* a guard that compares the whole overlap text; OverlapNonDuplication tells
\* it from NeedsOverlap
NeedsOverlapWholeText(content, overlapText) == ~startsWith(content, overlapText)

\* the duplicate-overlap guard: !content.startsWith(overlapText.slice(0, 50))
NeedsOverlap(content, overlapText) ==
  ~startsWith(content, sliceFirst(overlapText, OverlapGuardLen))

addOverlap(chunks, overlapSize) ==
  IF Len(chunks) <= 1 \/ overlapSize = 0 THEN chunks
  ELSE [i \in 1..Len(chunks) |->
          LET chunk == chunks[i]
              overlapText == sliceLast(chunks[i-1].content, overlapSize)
              hasOverlap == i > 1 /\ NeedsOverlap(chunk.content, overlapText)
          IN [content |-> IF hasOverlap
                            THEN overlapText \o <<"\n", "\n">> \o chunk.content
                            ELSE chunk.content,
              metadata |-> [chunk.metadata EXCEPT !.hasOverlap = hasOverlap]]]

\* lines[1].includes(...) of a one-line block reads a property of undefined
TableSplitThrows(block) == Len(split(block.text, "\n")) <= 1

\* the header of a table: its first line, and the second when it is a separator
tableHeaderLines(lines) ==
  IF (Len(lines) > 1 /\ includes(lines[2], "-")) \/ includes(lines[2], "=")
    THEN <<lines[1], lines[2]>> ELSE <<lines[1]>>

\* one iteration of the loop over the data rows
tableStep(st, row, header, cfg) ==
  IF /\ Len(st.currentChunk \o <<"\n">> \o row) > cfg.tableMaxSize
     /\ st.currentChunk # header
    THEN [chunks |-> Append(st.chunks,
                            Chunk(st.currentChunk, st.currentIndex, "table", "high")),
          currentChunk |-> header \o <<"\n">> \o row,
          currentIndex |-> st.currentIndex + 1]
    ELSE [st EXCEPT !.currentChunk = st.currentChunk \o <<"\n">> \o row]

\* "Add remaining chunk" after the loop over the data rows
tableFinish(st, header) ==
  IF Len(st.currentChunk) > Len(header)
    THEN Append(st.chunks, Chunk(st.currentChunk, st.currentIndex, "table", "high"))
    ELSE st.chunks

tableRows(dataLines, header, startIndex, cfg) ==
  LET F[i \in 0..Len(dataLines)] ==
        IF i = 0
          THEN [chunks |-> <<>>, currentChunk |-> header, currentIndex |-> startIndex]
        ELSE tableStep(F[i-1], dataLines[i], header, cfg)
  IN tableFinish(F[Len(dataLines)], header)

tableLines(lines, headerLines, startIndex, cfg) ==
  tableRows(SubSeq(lines, Len(headerLines) + 1, Len(lines)),
            join(headerLines, <<"\n">>), startIndex, cfg)

chunkTableByRows(block, startIndex, cfg) ==
  tableLines(split(block.text, "\n"), tableHeaderLines(split(block.text, "\n")),
             startIndex, cfg)

\* currentChunk + (currentChunk ? sep : "") + piece
potential(currentChunk, sep, piece) ==
  currentChunk \o (IF currentChunk # <<>> THEN sep ELSE <<>>) \o piece

\* one iteration of the loop over the list lines
listStep(st, line, cfg) ==
  IF trim(line) = <<>> THEN st
  ELSE IF /\ Len(potential(st.currentChunk, <<"\n">>, line)) > cfg.maxChunkSize
          /\ Len(st.currentChunk) > 0
    THEN [chunks |-> Append(st.chunks,
                            Chunk(st.currentChunk, st.currentIndex, "list", "high")),
          currentChunk |-> line,
          currentIndex |-> st.currentIndex + 1]
    ELSE [st EXCEPT !.currentChunk = potential(st.currentChunk, <<"\n">>, line)]

\* an end of the loop that leaves the accumulated lines out
listFinishDropsLast(st) == st.chunks

\* "Add remaining chunk" after the loop over the list lines
listFinish(st) ==
  IF st.currentChunk # <<>>
    THEN Append(st.chunks, Chunk(st.currentChunk, st.currentIndex, "list", "high"))
    ELSE st.chunks

listLines(lines, startIndex, cfg) ==
  LET F[i \in 0..Len(lines)] ==
        IF i = 0
          THEN [chunks |-> <<>>, currentChunk |-> <<>>, currentIndex |-> startIndex]
        ELSE listStep(F[i-1], lines[i], cfg)
  IN listFinish(F[Len(lines)])

chunkListByItems(block, startIndex, cfg) ==
  listLines(split(block.text, "\n"), startIndex, cfg)

\* block.text.match(/[^.!?]+[.!?]+/g) || [block.text]: a match is a maximal run
\* of terminal punctuation together with the non-empty run of other characters
\* before it, back to the end of the previous match
matchSentences(t) ==
  LET n == Len(t)
      IsEnd(i) == t[i] \in Terminal /\ (i = n \/ t[i+1] \notin Terminal)
      \* the last positions of the runs of terminal punctuation, in order
      allEnds == SelectSeq([i \in 1..n |-> i], IsEnd)
      \* a run that starts the text has nothing before it and ends no match
      skipped == IF allEnds # <<>> /\ \A k \in 1..allEnds[1] : t[k] \in Terminal
                   THEN 1 ELSE 0
      r == Len(allEnds) - skipped
      Prev(k) == IF k + skipped = 1 THEN 0 ELSE allEnds[k + skipped - 1]
  IN IF r = 0 THEN <<t>>
     ELSE [k \in 1..r |-> SubSeq(t, Prev(k) + 1, allEnds[k + skipped])]

SplitConfidence(block) == IF Above(block.confidence, 7, 10) THEN "high" ELSE "medium"

\* a test that closes a chunk already at half the maximum
ClosesTextChunkAtHalf(potentialChunk, currentChunk, cfg) ==
  Len(potentialChunk) * 2 > cfg.maxChunkSize /\ Len(currentChunk) >= cfg.minChunkSize

\* the test that closes a chunk in the sentence loop
ClosesTextChunk(potentialChunk, currentChunk, cfg) ==
  Len(potentialChunk) > cfg.maxChunkSize /\ Len(currentChunk) >= cfg.minChunkSize

\* the trimmed sentences the loop does not skip: if (!trimmed) continue
keptSentences(sentences) ==
  SelectSeq([i \in 1..Len(sentences) |-> trim(sentences[i])],
            LAMBDA trimmed : trimmed # <<>>)

\* currentChunk after the sentences a, ..., b were added to an empty one:
\* currentChunk + (currentChunk ? " " : "") + trimmed, once per sentence
joined(ts, a, b) == join(SubSeq(ts, a, b), <<" ">>)

\* the least element of S, or d when S is empty
LeastOr(S, d) == IF S = {} THEN d ELSE CHOOSE b \in S : \A c \in S : b <= c

\* the sentence at which the chunk that starts with sentence a is saved: the
\* first b after a for which the test of the loop holds, currentChunk being
\* the sentences a, ..., b-1 until then; past the last sentence when there is
\* none
closeAt(ts, a, cfg) ==
  LeastOr({b \in (a + 1)..Len(ts) :
             ClosesTextChunk(joined(ts, a, b), joined(ts, a, b - 1), cfg)},
          Len(ts) + 1)

RECURSIVE textRuns(_, _, _)
\* the runs of sentences the loop accumulates from sentence a on, each from
\* the sentence that starts a currentChunk to the last one added to it
textRuns(ts, a, cfg) ==
  IF a > Len(ts) THEN <<>>
  ELSE <<[from |-> a, to |-> closeAt(ts, a, cfg) - 1]>>
         \o textRuns(ts, closeAt(ts, a, cfg), cfg)

\* the chunks saved before the first sentence is kept: the test of the loop
\* holds on an empty currentChunk only when minChunkSize is 0
savedEmpty(ts, cfg) ==
  IF ts # <<>> /\ ClosesTextChunk(ts[1], <<>>, cfg) THEN 1 ELSE 0

\* chunks, currentChunk and currentIndex after the loop over the sentences,
\* given its runs: every run but the last was saved as a chunk
textLoop(ts, runs, empties, block, startIndex) ==
  IF ts = <<>>
    THEN [chunks |-> <<>>, currentChunk |-> <<>>, currentIndex |-> startIndex]
    ELSE [chunks |->
            [k \in 1..(empties + Len(runs) - 1) |->
               Chunk(IF k <= empties THEN <<>>
                     ELSE joined(ts, runs[k - empties].from, runs[k - empties].to),
                     startIndex + k - 1, block.type, SplitConfidence(block))],
          currentChunk |-> joined(ts, runs[Len(runs)].from, runs[Len(runs)].to),
          currentIndex |-> startIndex + empties + Len(runs) - 1]

\* a merge that leaves the recorded length as it was
mergeKeepsLength(chunks, currentChunk) ==
  [chunks EXCEPT ![Len(chunks)].content = @ \o <<" ">> \o currentChunk]

\* lastChunk.content += " " + currentChunk, with the length recorded again
mergeIntoLast(chunks, currentChunk) ==
  [chunks EXCEPT ![Len(chunks)] =
     [content |-> @.content \o <<" ">> \o currentChunk,
      metadata |-> [@.metadata EXCEPT
                      !.originalLength = Len(chunks[Len(chunks)].content) + 1
                                           + Len(currentChunk)]]]

\* an end of the loop that has no branch for a small chunk without
\* predecessors
textFinishDropsSmall(st, block, cfg) ==
  IF st.currentChunk # <<>> /\ Len(st.currentChunk) >= cfg.minChunkSize
    THEN Append(st.chunks, Chunk(st.currentChunk, st.currentIndex, block.type,
                                 SplitConfidence(block)))
  ELSE IF st.currentChunk # <<>> /\ Len(st.chunks) > 0
    THEN mergeIntoLast(st.chunks, st.currentChunk)
  ELSE st.chunks

\* "Add remaining chunk" after the loop over the sentences
textFinish(st, block, cfg) ==
  IF st.currentChunk # <<>> /\ Len(st.currentChunk) >= cfg.minChunkSize
    THEN Append(st.chunks, Chunk(st.currentChunk, st.currentIndex, block.type,
                                 SplitConfidence(block)))
  ELSE IF st.currentChunk # <<>> /\ Len(st.chunks) > 0
    THEN mergeIntoLast(st.chunks, st.currentChunk)
  ELSE IF st.currentChunk # <<>>
    THEN Append(st.chunks, Chunk(st.currentChunk, st.currentIndex, block.type, "low"))
  ELSE st.chunks

textSentences(ts, block, startIndex, cfg) ==
  textFinish(textLoop(ts, textRuns(ts, 1, cfg), savedEmpty(ts, cfg), block, startIndex),
             block, cfg)

chunkTextBySentences(block, startIndex, cfg) ==
  textSentences(keptSentences(matchSentences(block.text)), block, startIndex, cfg)

\* a confidence with the 0.7 threshold only, as the splitters have it
fitConfidenceTwoLevels(block) ==
  IF Above(block.confidence, 7, 10) THEN "high" ELSE "medium"

\* the confidence of the chunk of a block that fits
fitConfidence(block) ==
  IF Above(block.confidence, 7, 10) THEN "high"
  ELSE IF Above(block.confidence, 4, 10) THEN "medium"
  ELSE "low"

chunkBlock(block, index, cfg) ==
  LET maxSize == IF block.type = "table" THEN cfg.tableMaxSize ELSE cfg.maxChunkSize
  IN IF Len(block.text) <= maxSize
       THEN << Chunk(block.text, index, block.type, fitConfidence(block)) >>
     ELSE IF block.type = "table" THEN chunkTableByRows(block, index, cfg)
     ELSE IF block.type = "list" THEN chunkListByItems(block, index, cfg)
     ELSE chunkTextBySentences(block, index, cfg)

\* whether chunkBlock raises on this block
chunkBlockThrows(block, cfg) ==
  /\ block.type = "table"
  /\ Len(block.text) > cfg.tableMaxSize
  /\ TableSplitThrows(block)

\* blockChunks.forEach((chunk) => { chunk.metadata.pageNumber = pageNumber })
stampPage(chunks, page) ==
  IF page # <<>>
    THEN [i \in 1..Len(chunks) |->
            [chunks[i] EXCEPT !.metadata.pageNumber = page]]
    ELSE chunks

\* a counter that advances by one per block; OrderedIndices tells it from
\* advanceIndex
advanceIndexByOne(index, blockChunks) == index + 1

\* the advance of the running counter after a block: chunkIndex += blockChunks.length
advanceIndex(index, blockChunks) == index + Len(blockChunks)

\* a filter that tests the length recorded before the overlap was added;
\* MinimumSize tells it from keepChunk
keepChunkByOriginalLength(chunk, cfg) ==
  chunk.metadata.originalLength >= cfg.minChunkSize

\* the predicate of the final filter
keepChunk(chunk, cfg) == Len(trim(chunk.content)) >= cfg.minChunkSize

filterChunks(chunks, cfg) == SelectSeq(chunks, LAMBDA c : keepChunk(c, cfg))

\* the options semanticChunk passes to preprocessText
chunkerOptions ==
  [removeRepeated |-> TRUE, removePageNumbers |-> TRUE, removeLinks |-> FALSE]

-----------------------------------------------------------------------------
(* semanticChunk, semanticChunkMultiPage and getChunkingStats.             *)

\* a push that leaves the counter where it was
pushChunksKeepsCounter(st, blockChunks) ==
  [allChunks |-> st.allChunks \o blockChunks, chunkIndex |-> st.chunkIndex]

\* allChunks.push(...blockChunks); chunkIndex += blockChunks.length
pushChunks(st, blockChunks) ==
  [allChunks |-> st.allChunks \o blockChunks,
   chunkIndex |-> advanceIndex(st.chunkIndex, blockChunks)]

\* one iteration of the loop over the blocks
chunkStep(st, block, page, cfg) ==
  pushChunks(st, stampPage(chunkBlock(block, st.chunkIndex, cfg), page))

\* Steps 3 to 5 of semanticChunk
chunkBlocks(blks, page, cfg) ==
  LET F[i \in 0..Len(blks)] ==
        IF i = 0 THEN [allChunks |-> <<>>, chunkIndex |-> 0]
        ELSE chunkStep(F[i-1], blks[i], page, cfg)
  IN IF Len(blks) = 0 THEN <<>>
     ELSE filterChunks(addOverlap(F[Len(blks)].allChunks, cfg.overlapSize), cfg)

semanticChunk(t, page, cfg) ==
  chunkBlocks(segmentIntoBlocks(preprocessText(t, chunkerOptions)), page, cfg)

\* a renumbering that leaves the per-page indices; MultiPageRenumbering tells
\* it from renumber
renumberKeepsIndices(chunks) == chunks

\* allChunks.forEach((chunk, index) => { chunk.metadata.chunkIndex = index }),
\* with the 0-based index of the source
renumber(chunks) ==
  [i \in 1..Len(chunks) |-> [chunks[i] EXCEPT !.metadata.chunkIndex = i - 1]]

\* Math.floor(total / n); Statistics tells it from roundDiv
roundDivFloor(total, n) == total \div n

\* Math.round(total / n) for total >= 0, n > 0
roundDiv(total, n) == (2 * total + n) \div (2 * n)

Tally(chunks, Key(_)) ==
  [k \in {Key(chunks[i]) : i \in 1..Len(chunks)} |->
     Cardinality({i \in 1..Len(chunks) : Key(chunks[i]) = k})]

getChunkingStats(chunks) ==
  LET sizes == [i \in 1..Len(chunks) |-> Len(chunks[i].content)]
  IN IF Len(chunks) = 0
       THEN [totalChunks |-> 0, avgChunkSize |-> 0, minChunkSize |-> 0,
             maxChunkSize |-> 0, contentTypes |-> [k \in {} |-> 0],
             confidenceLevels |-> [k \in {} |-> 0]]
       ELSE [totalChunks |-> Len(chunks),
             avgChunkSize |-> roundDiv(SumOf(sizes), Len(sizes)),
             minChunkSize |-> MinOf(sizes),
             maxChunkSize |-> MaxOf(sizes),
             contentTypes |-> Tally(chunks, LAMBDA c : c.metadata.contentType),
             confidenceLevels |-> Tally(chunks, LAMBDA c : c.metadata.confidence)]

-----------------------------------------------------------------------------
(* Inputs.                                                                  *)

\* the largest number of paragraphs of an input document
MaxParas == 2
\* the largest number of pages handed to semanticChunkMultiPage
MaxPages == 2

Rep(c, n) == [i \in 1..n |-> c]

\* the raw paragraphs the input documents are made of
Paragraphs == <<
    \* a short title line
    <<"H","i">>,
    \* three sentences, a doubled space and a CR LF
    <<"a","a","a"," "," ","b","b","b","."," ","c","c","c"," ","d","d","d",".","CR","\n","e","e","e"," ","f","f","f",".">>,
    Rep("a", 24),
    \* a pipe table with a separator row
    <<"a","|","b","\n","-","|","-","\n","c","|","1","\n","d","|","2","\n","e","|","3">>,
    \* a numbered list
    <<"1","."," ","a","a","\n","2",")"," ","b","b","\n","3","."," ","c","c">>,
    \* white space only
    <<" ","\t"," ">>,
    \* a page-number line
    <<"P","a","g","e"," ","2">>,
    \* header/footer boilerplate
    <<"D","r","a","f","t"," ","1">>,
    \* one short sentence and a long unpunctuated tail
    <<"a","b","."," ","c","c","c","c","c","c","c","c","c","c","c","c","c","c","c">>,
    \* a final sentence shorter than the minimum
    <<"a","a","a","a","a","a","a","a","."," ","b","b","b","b","b","b","b","b","b","b","b","."," ","c",".">>,
    Rep("x", 60),
    \* starts with the first 50 characters of the tail of the one before
    Rep("x", 50) \o <<"y">>,
    \* a line that is only a URL
    <<"h","t","t","p","s",":","/","/","x",".","c","o">>,
    \* a line that is only an email address
    <<"a","@","b",".","c","o">>,
    \* a dashed list
    <<"-"," ","a","a","\n","-"," ","b","b">>,
    \* numbered lines with pipes: a table and a list at once
    <<"1","."," ","a","|","b","\n","2","."," ","c","|","d","\n","3","."," ","e","|","f">>,
    \* a line with every mark of a heading
    <<"S","U","M","M","A","R","Y"," ","*","*">> >>

\* the sequences over the set S of length at most k
SeqsUpTo(S, k) == UNION {[1..m -> S] : m \in 0..k}

\* the paragraphs of a choice, separated by blank lines
Document(choice) ==
  join([i \in 1..Len(choice) |-> Paragraphs[choice[i]]], <<"\n", "\n">>)

\* the documents made of at most MaxParas of the paragraphs numbered in S
Documents(S) == {Document(c) : c \in SeqsUpTo(S, MaxParas)}

\* a 5-line pipe-delimited table
TableScenario ==
  <<"N","a","m","e","|","A","g","e","\n",
    "-","-","-","|","-","-","-","\n",
    "A","l","i","c","e","|","3","0","\n",
    "B","o","b","|","2","5","\n",
    "C","a","r","o","l","|","2","2">>

\* a table whose header is longer than the small table budget
WideHeaderTable ==
  <<"a","a","a","a","a","a","|","b","b","b","b","b","b","\n",
    "-","|","-","\n",
    "c","|","1","\n",
    "d","|","2">>

\* the length of the text of short sentences
ScenarioLength == 1500

\* "A. B. C. D." repeated to the length ScenarioLength
SentenceScenario ==
  [i \in 1..ScenarioLength |->
     <<"A","."," ","B","."," ","C","."," ","D",".">>[((i - 1) % 11) + 1]]

\* the inputs of semanticChunk: the short paragraphs under small budgets, with
\* and without overlap, the long ones under an overlap longer than the guard
\* of addOverlap, the link lines and the short lists and tables, a table with a
\* wide header, and the two scenarios under the default budgets
Cases ==
  { [docs |-> Documents(1..10),
     configs |->
       { [maxChunkSize |-> 12, overlapSize |-> 3, tableMaxSize |-> 16,
          minChunkSize |-> 4],
         [maxChunkSize |-> 12, overlapSize |-> 0, tableMaxSize |-> 16,
          minChunkSize |-> 4] }],
    [docs |-> Documents({1, 4, 11, 12}),
     configs |->
       { [maxChunkSize |-> 60, overlapSize |-> 52, tableMaxSize |-> 60,
          minChunkSize |-> 4] }],
    [docs |-> Documents({1, 8, 13, 14, 15, 16, 17}),
     configs |->
       { [maxChunkSize |-> 12, overlapSize |-> 3, tableMaxSize |-> 16,
          minChunkSize |-> 4] }],
    [docs |-> {WideHeaderTable},
     configs |->
       { [maxChunkSize |-> 12, overlapSize |-> 3, tableMaxSize |-> 16,
          minChunkSize |-> 4] }],
    [docs |-> {TableScenario}, configs |-> {DEFAULT_CONFIG}],
    [docs |-> {SentenceScenario}, configs |-> {DEFAULT_CONFIG}] }

Configs == UNION {c.configs : c \in Cases}

PageNumbers == {<<>>, <<1>>}

\* the page texts of the multi-page calls
PageTexts == {Document(<<i>>) : i \in {1, 2, 4, 5, 6, 10}}

PageLists ==
  UNION {{[i \in 1..m |-> [text |-> f[i], pageNumber |-> i]] :
            f \in [1..m -> PageTexts]} : m \in 0..MaxPages}

noStats == [totalChunks |-> -1]

-----------------------------------------------------------------------------
(* One call of semanticChunk, step by step, followed by getChunkingStats   *)
(* on its result.                                                           *)

Init ==
  /\ pc = "start"
  /\ \E c \in Cases : text \in c.docs /\ config \in c.configs
  /\ pageNumber \in PageNumbers
  /\ cleanedText = <<>>
  /\ recleaned = <<>>
  /\ calls = <<>>
  /\ heap = <<>>
  /\ blocks = <<>>
  /\ blockPos = 0
  /\ allChunks = <<>>
  /\ chunkIndex = 0
  /\ chunksWithOverlap = <<>>
  /\ finalChunks = <<>>
  /\ stats = noStats
  /\ pages = <<>>
  /\ pagePos = 0
  /\ multiChunks = <<>>

\* Step 1: preprocess the text
Preprocess ==
  /\ pc = "start"
  /\ cleanedText' = preprocessText(text, chunkerOptions)
  /\ pc' = "segment"
  /\ UNCHANGED <<text, recleaned, calls, heap, pageNumber, config, blocks, blockPos, allChunks, chunkIndex,
                 chunksWithOverlap, finalChunks, stats, pages, pagePos, multiChunks>>

\* Step 2: segment into content blocks; no blocks, return []
Segment ==
  /\ pc = "segment"
  /\ blocks' = segmentIntoBlocks(cleanedText)
  /\ IF Len(blocks') = 0
       THEN pc' = "returned" /\ blockPos' = blockPos
       ELSE pc' = "chunk" /\ blockPos' = 1
  /\ UNCHANGED <<text, recleaned, calls, heap, pageNumber, config, cleanedText, allChunks, chunkIndex,
                 chunksWithOverlap, finalChunks, stats, pages, pagePos, multiChunks>>

\* Step 3: one iteration of the loop over the blocks
ChunkNextBlock ==
  /\ pc = "chunk"
  /\ IF chunkBlockThrows(blocks[blockPos], config)
       THEN /\ pc' = "threw"
            /\ UNCHANGED <<allChunks, chunkIndex, blockPos>>
       ELSE /\ \E st \in {chunkStep([allChunks |-> allChunks, chunkIndex |-> chunkIndex],
                                     blocks[blockPos], pageNumber, config)} :
                 /\ allChunks' = st.allChunks
                 /\ chunkIndex' = st.chunkIndex
            /\ blockPos' = blockPos + 1
            /\ pc' = IF blockPos = Len(blocks) THEN "overlap" ELSE "chunk"
  /\ UNCHANGED <<text, recleaned, calls, heap, pageNumber, config, cleanedText, blocks,
                 chunksWithOverlap, finalChunks, stats, pages, pagePos, multiChunks>>

\* Step 4: add overlap between chunks
Overlap ==
  /\ pc = "overlap"
  /\ chunksWithOverlap' = addOverlap(allChunks, config.overlapSize)
  /\ pc' = "filter"
  /\ UNCHANGED <<text, recleaned, calls, heap, pageNumber, config, cleanedText, blocks, blockPos, allChunks,
                 chunkIndex, finalChunks, stats, pages, pagePos, multiChunks>>

\* Step 5: filter out very small chunks and return
Filter ==
  /\ pc = "filter"
  /\ finalChunks' = filterChunks(chunksWithOverlap, config)
  /\ pc' = "returned"
  /\ UNCHANGED <<text, recleaned, calls, heap, pageNumber, config, cleanedText, blocks, blockPos, allChunks,
                 chunkIndex, chunksWithOverlap, stats, pages, pagePos, multiChunks>>

\* the caller hands the returned list to getChunkingStats
Stats ==
  /\ pc = "returned"
  /\ stats' = getChunkingStats(finalChunks)
  /\ pc' = "stats"
  /\ UNCHANGED <<text, recleaned, calls, heap, pageNumber, config, cleanedText, blocks, blockPos, allChunks,
                 chunkIndex, chunksWithOverlap, finalChunks, pages, pagePos,
                 multiChunks>>

Next == Preprocess \/ Segment \/ ChunkNextBlock \/ Overlap \/ Filter \/ Stats

Spec == Init /\ [][Next]_vars

-----------------------------------------------------------------------------
(* One call of semanticChunkMultiPage.                                      *)

InitMultiPage ==
  /\ pc = "pages"
  /\ pages \in PageLists
  /\ config \in Configs
  /\ pagePos = 1
  /\ multiChunks = <<>>
  /\ text = <<>>
  /\ pageNumber = <<>>
  /\ cleanedText = <<>>
  /\ recleaned = <<>>
  /\ calls = <<>>
  /\ heap = <<>>
  /\ blocks = <<>>
  /\ blockPos = 0
  /\ allChunks = <<>>
  /\ chunkIndex = 0
  /\ chunksWithOverlap = <<>>
  /\ finalChunks = <<>>
  /\ stats = noStats

\* one iteration of the loop over the pages
ChunkNextPage ==
  /\ pc = "pages"
  /\ pagePos <= Len(pages)
  /\ multiChunks' = multiChunks
       \o semanticChunk(pages[pagePos].text, <<pages[pagePos].pageNumber>>, config)
  /\ pagePos' = pagePos + 1
  /\ UNCHANGED <<pc, text, recleaned, calls, heap, pageNumber, config, cleanedText, blocks, blockPos,
                 allChunks, chunkIndex, chunksWithOverlap, finalChunks, stats, pages>>

\* recalculate the chunk indices and return
Renumber ==
  /\ pc = "pages"
  /\ pagePos > Len(pages)
  /\ multiChunks' = renumber(multiChunks)
  /\ pc' = "returned"
  /\ UNCHANGED <<text, recleaned, calls, heap, pageNumber, config, cleanedText, blocks, blockPos, allChunks,
                 chunkIndex, chunksWithOverlap, finalChunks, stats, pages, pagePos>>

NextMultiPage == ChunkNextPage \/ Renumber

SpecMultiPage == InitMultiPage /\ [][NextMultiPage]_vars

-----------------------------------------------------------------------------
(* Two passes of preprocessText with its default options, the second over  *)
(* the result of the first.                                                 *)

\* the largest number of fragments of a noisy text
MaxPieces == 3

\* the fragments the noisy texts are made of
NoisePieces ==
  { <<"c","o","-"," ">>,                      \* a word broken by a hyphen
    <<"o","p">>,
    <<"a","B">>,                              \* a lost space
    <<"\n">>,
    <<"CR","\n"," "," ","\t","\t">>,
    <<"P","a","g","e"," ","2","\n">>,         \* a page-number line
    <<"-"," ","a","b","c","d","e","f","\n">>, \* a dash list item
    <<"BULLET"," "," ","a","b","c","d","e","f","\n">>,
    <<"h","t","t","p",":","/","/","x","\n">> }

NoisyTexts == {Flatten(c) : c \in SeqsUpTo(NoisePieces, MaxPieces)}

\* the options of a call that passes none: every pass but fixOCR runs
defaultOptions ==
  [removeRepeated |-> TRUE, removePageNumbers |-> TRUE, removeLinks |-> TRUE]

InitCleanup ==
  /\ pc = "raw"
  /\ text \in NoisyTexts
  /\ cleanedText = <<>>
  /\ recleaned = <<>>
  /\ calls = <<>>
  /\ heap = <<>>
  /\ pageNumber = <<>>
  /\ config = DEFAULT_CONFIG
  /\ blocks = <<>>
  /\ blockPos = 0
  /\ allChunks = <<>>
  /\ chunkIndex = 0
  /\ chunksWithOverlap = <<>>
  /\ finalChunks = <<>>
  /\ stats = noStats
  /\ pages = <<>>
  /\ pagePos = 0
  /\ multiChunks = <<>>

\* preprocessText(t)
CleanOnce ==
  /\ pc = "raw"
  /\ cleanedText' = preprocessText(text, defaultOptions)
  /\ pc' = "once"
  /\ UNCHANGED <<text, recleaned, calls, heap, pageNumber, config, blocks, blockPos, allChunks,
                 chunkIndex, chunksWithOverlap, finalChunks, stats, pages, pagePos,
                 multiChunks>>

\* preprocessText(preprocessText(t))
CleanTwice ==
  /\ pc = "once"
  /\ recleaned' = preprocessText(cleanedText, defaultOptions)
  /\ pc' = "twice"
  /\ UNCHANGED <<text, calls, heap, cleanedText, pageNumber, config, blocks, blockPos,
                 allChunks, chunkIndex, chunksWithOverlap, finalChunks, stats, pages,
                 pagePos, multiChunks>>

NextCleanup == CleanOnce \/ CleanTwice

SpecCleanup == InitCleanup /\ [][NextCleanup]_vars

-----------------------------------------------------------------------------
(* Two calls of semanticChunk whose steps interleave.  Each call has its   *)
(* frame of parameters and locals; a config parameter is a reference to an *)
(* object of the heap, which holds DEFAULT_CONFIG and a caller's object.   *)

Callers == {1, 2}

\* the config object a caller may pass instead of the default
CallerConfig ==
  [maxChunkSize |-> 12, overlapSize |-> 3, tableMaxSize |-> 16, minChunkSize |-> 4]

InitialHeap == [DEFAULT_CONFIG |-> DEFAULT_CONFIG, callerConfig |-> CallerConfig]

\* the texts of the interleaved calls: short documents and one text long
\* enough for the default minimum
CallTexts ==
  {Document(<<i>>) : i \in {1, 4, 5, 6}} \cup {SubSeq(SentenceScenario, 1, 120)}

\* the frame at entry: the parameters, and the locals not yet assigned
EntryFrame(t, page, ref) ==
  [pc |-> "start", args |-> [text |-> t, pageNumber |-> page, config |-> ref],
   text |-> t, pageNumber |-> page, config |-> ref, cleanedText |-> <<>>,
   blocks |-> <<>>, blockPos |-> 0, allChunks |-> <<>>, chunkIndex |-> 0,
   chunksWithOverlap |-> <<>>, finalChunks |-> <<>>]

\* a counter that every call reads from the first call's frame
counterOfFirstCall(c) == calls[1].chunkIndex

\* let chunkIndex = 0: the counter is a local of the call
counter(c) == calls[c].chunkIndex

\* the config object behind the parameter of the call
configOf(c) == heap[calls[c].config]

InitConcurrent ==
  /\ calls \in [Callers -> {EntryFrame(t, <<>>, ref) :
                              t \in CallTexts, ref \in DOMAIN InitialHeap}]
  /\ heap = InitialHeap
  /\ pc = "calls"
  /\ text = <<>>
  /\ recleaned = <<>>
  /\ pageNumber = <<>>
  /\ config = DEFAULT_CONFIG
  /\ cleanedText = <<>>
  /\ blocks = <<>>
  /\ blockPos = 0
  /\ allChunks = <<>>
  /\ chunkIndex = 0
  /\ chunksWithOverlap = <<>>
  /\ finalChunks = <<>>
  /\ stats = noStats
  /\ pages = <<>>
  /\ pagePos = 0
  /\ multiChunks = <<>>

\* Step 1 of call c
CallPreprocess(c) ==
  /\ calls[c].pc = "start"
  /\ calls' = [calls EXCEPT ![c].cleanedText = preprocessText(calls[c].text, chunkerOptions),
                            ![c].pc = "segment"]
  /\ UNCHANGED heap

\* Step 2 of call c
CallSegment(c) ==
  /\ calls[c].pc = "segment"
  /\ \E blks \in {segmentIntoBlocks(calls[c].cleanedText)} :
       calls' = [calls EXCEPT ![c].blocks = blks,
                              ![c].blockPos = IF Len(blks) = 0 THEN @ ELSE 1,
                              ![c].pc = IF Len(blks) = 0 THEN "returned" ELSE "chunk"]
  /\ UNCHANGED heap

\* Step 3 of call c: one iteration of the loop over the blocks
CallChunkNextBlock(c) ==
  /\ calls[c].pc = "chunk"
  /\ IF chunkBlockThrows(calls[c].blocks[calls[c].blockPos], configOf(c))
       THEN calls' = [calls EXCEPT ![c].pc = "threw"]
       ELSE \E st \in {chunkStep([allChunks |-> calls[c].allChunks,
                                  chunkIndex |-> counter(c)],
                                 calls[c].blocks[calls[c].blockPos],
                                 calls[c].pageNumber, configOf(c))} :
              calls' = [calls EXCEPT
                          ![c].allChunks = st.allChunks,
                          ![c].chunkIndex = st.chunkIndex,
                          ![c].blockPos = @ + 1,
                          ![c].pc = IF calls[c].blockPos = Len(calls[c].blocks)
                                      THEN "overlap" ELSE "chunk"]
  /\ UNCHANGED heap

\* Step 4 of call c
CallOverlap(c) ==
  /\ calls[c].pc = "overlap"
  /\ calls' = [calls EXCEPT
                 ![c].chunksWithOverlap = addOverlap(calls[c].allChunks,
                                                     configOf(c).overlapSize),
                 ![c].pc = "filter"]
  /\ UNCHANGED heap

\* Step 5 of call c, and its return
CallFilter(c) ==
  /\ calls[c].pc = "filter"
  /\ calls' = [calls EXCEPT
                 ![c].finalChunks = filterChunks(calls[c].chunksWithOverlap, configOf(c)),
                 ![c].pc = "returned"]
  /\ UNCHANGED heap

NextConcurrent ==
  /\ \E c \in Callers :
       \/ CallPreprocess(c)
       \/ CallSegment(c)
       \/ CallChunkNextBlock(c)
       \/ CallOverlap(c)
       \/ CallFilter(c)
  /\ UNCHANGED <<pc, text, recleaned, pageNumber, config, cleanedText, blocks, blockPos,
                 allChunks, chunkIndex, chunksWithOverlap, finalChunks, stats, pages,
                 pagePos, multiChunks>>

SpecConcurrent == InitConcurrent /\ [][NextConcurrent]_vars

-----------------------------------------------------------------------------
(* The line passes of the preprocessor, each applied alone to a text of a  *)
(* few lines: removeRepeatedSections and normalizeLists.                    *)

\* the largest number of lines of a short text
MaxLines == 4

\* the lines the short texts are made of
ShortLines ==
  { <<"a","b","c","d","e">>,            \* 5 characters
    <<"a","b","c","d","e","f">>,        \* 6 characters
    <<" ","a","b","c","d","e","f">>,    \* the same after trimming
    <<>>,                               \* a blank line
    <<"a","b">>,
    <<"-">>,                            \* a marker alone on its line
    <<"-"," ","a","b">> }               \* a list item

\* three lines of n characters and a short one
LongLines(n) == join(<<Rep("x", n), <<"a","b">>, Rep("x", n), Rep("x", n)>>, <<"\n">>)

LineTexts ==
  {join(c, <<"\n">>) : c \in SeqsUpTo(ShortLines, MaxLines) \ {<<>>}}
    \cup {LongLines(99), LongLines(100)}

InitPasses ==
  /\ pc = "lines"
  /\ text \in LineTexts
  /\ cleanedText = <<>>
  /\ recleaned = <<>>
  /\ calls = <<>>
  /\ heap = <<>>
  /\ pageNumber = <<>>
  /\ config = DEFAULT_CONFIG
  /\ blocks = <<>>
  /\ blockPos = 0
  /\ allChunks = <<>>
  /\ chunkIndex = 0
  /\ chunksWithOverlap = <<>>
  /\ finalChunks = <<>>
  /\ stats = noStats
  /\ pages = <<>>
  /\ pagePos = 0
  /\ multiChunks = <<>>

\* removeRepeatedSections(text)
RemoveRepeated ==
  /\ pc = "lines"
  /\ cleanedText' = removeRepeatedSections(text)
  /\ pc' = "repeated removed"
  /\ UNCHANGED <<text, recleaned, calls, heap, pageNumber, config, blocks, blockPos, allChunks,
                 chunkIndex, chunksWithOverlap, finalChunks, stats, pages, pagePos,
                 multiChunks>>

\* normalizeLists(text)
NormalizeLists ==
  /\ pc = "lines"
  /\ cleanedText' = normalizeLists(text)
  /\ pc' = "lists normalized"
  /\ UNCHANGED <<text, recleaned, calls, heap, pageNumber, config, blocks, blockPos, allChunks,
                 chunkIndex, chunksWithOverlap, finalChunks, stats, pages, pagePos,
                 multiChunks>>

NextPasses == RemoveRepeated \/ NormalizeLists

SpecPasses == InitPasses /\ [][NextPasses]_vars

-----------------------------------------------------------------------------
(* Properties of semanticChunk, semanticChunkMultiPage and                 *)
(* getChunkingStats.                                                        *)

Idx(chunk) == chunk.metadata.chunkIndex

\* sub occurs in s
Contains(s, sub) ==
  \E a \in 1..(Len(s) - Len(sub) + 1) : SubSeq(s, a, a + Len(sub) - 1) = sub

\* the last n characters of s (all of s when it is shorter)
LastChars(s, n) == SubSeq(s, IF n >= Len(s) THEN 1 ELSE Len(s) - n + 1, Len(s))

\* the first n characters of s (all of s when it is shorter)
FirstChars(s, n) == SubSeq(s, 1, IF n >= Len(s) THEN Len(s) ELSE n)

\* the index of the first chunk of each block, and after the last block the
\* number of chunks made
firstChunkOf(blks, cfg) ==
  LET F[p \in 1..(Len(blks) + 1)] ==
        IF p = 1 THEN 0
        ELSE F[p-1] + Len(chunkBlock(blks[p-1], F[p-1], cfg))
  IN F

\* C1: the list semanticChunk returns starts at chunkIndex 0 and each chunk's
\* chunkIndex is one more than that of the chunk before it
IndexContiguity ==
  pc = "returned" =>
    /\ finalChunks # <<>> => Idx(finalChunks[1]) = 0
    /\ \A i \in 2..Len(finalChunks) :
         Idx(finalChunks[i]) = Idx(finalChunks[i-1]) + 1

\* C2: every chunk semanticChunk returns has a trimmed content of at least
\* minChunkSize characters, and a chunk is returned exactly when its content
\* after overlap injection reaches that length
MinimumSize ==
  pc = "returned" =>
    /\ \A i \in 1..Len(finalChunks) :
         Len(trim(finalChunks[i].content)) >= config.minChunkSize
    /\ \A k \in 1..Len(chunksWithOverlap) :
         (Len(trim(chunksWithOverlap[k].content)) >= config.minChunkSize)
           <=> (\E i \in 1..Len(finalChunks) : finalChunks[i] = chunksWithOverlap[k])

\* a chunk shorter than minChunkSize before overlap injection is returned
MinimumSizeRescued ==
  /\ pc = "returned"
  /\ \E i \in 1..Len(finalChunks), k \in 1..Len(allChunks) :
       /\ Idx(allChunks[k]) = Idx(finalChunks[i])
       /\ Len(trim(allChunks[k].content)) < config.minChunkSize
       /\ finalChunks[i].metadata.hasOverlap

\* the size budget of a chunk of the given contentType
Budget(type) ==
  IF type = "table" THEN config.tableMaxSize ELSE config.maxChunkSize

\* C3: every returned chunk is at most its budget (tableMaxSize for a table,
\* maxChunkSize otherwise) plus overlapSize plus the 2-character separator long
SizeBound ==
  pc = "returned" =>
    \A i \in 1..Len(finalChunks) :
      Len(finalChunks[i].content)
        <= Budget(finalChunks[i].metadata.contentType) + config.overlapSize + 2

\* the header of a table block, as the splitter joins it
TableHeader(block) == join(tableHeaderLines(split(block.text, "\n")), <<"\n">>)

\* C4: every returned chunk of a table block that was split into several chunks
\* starts with the header line(s) of that block
TableHeaderPreservation ==
  pc = "returned" =>
    \A p \in 1..Len(blocks) :
      (/\ blocks[p].type = "table"
       /\ firstChunkOf(blocks, config)[p+1] > firstChunkOf(blocks, config)[p] + 1)
        => \A i \in 1..Len(finalChunks) :
             (/\ Idx(finalChunks[i]) >= firstChunkOf(blocks, config)[p]
              /\ Idx(finalChunks[i]) < firstChunkOf(blocks, config)[p+1])
               => startsWith(finalChunks[i].content, TableHeader(blocks[p]))

\* C5: the text of every text chunk shorter than minChunkSize that the
\* splitters emit (a short final fragment, or a short block) is found in the
\* returned list
NoSilentLoss ==
  pc = "returned" =>
    \A k \in 1..Len(allChunks) :
      (/\ allChunks[k].metadata.contentType = "text"
       /\ Len(allChunks[k].content) < config.minChunkSize)
        => \E i \in 1..Len(finalChunks) :
             Contains(finalChunks[i].content, allChunks[k].content)

\* the results of semanticChunk on the first n pages, one after the other
ConcatPages(n) ==
  LET F[i \in 0..n] ==
        IF i = 0 THEN <<>>
        ELSE F[i-1] \o semanticChunk(pages[i].text, <<pages[i].pageNumber>>, config)
  IN F[n]

\* C6: semanticChunkMultiPage returns the per-page results of semanticChunk in
\* the order of the pages, with the chunk at position k (from 0) carrying
\* chunkIndex k
MultiPageRenumbering ==
  pc = "returned" =>
    /\ Len(multiChunks) = Len(ConcatPages(Len(pages)))
    /\ \A k \in 1..Len(multiChunks) :
         /\ Idx(multiChunks[k]) = k - 1
         /\ multiChunks[k] =
              [ConcatPages(Len(pages))[k] EXCEPT !.metadata.chunkIndex = k - 1]

\* a returned chunk whose per-page index is not its position in the result
MultiPageRenumbered ==
  /\ pc = "returned"
  /\ Len(pages) = 2
  /\ \E k \in 1..Len(multiChunks) :
       /\ multiChunks[k].metadata.pageNumber = <<2>>
       /\ Idx(ConcatPages(2)[k]) # k - 1

\* chunk "after" is chunk "before" left as it was
LeftUnchanged(before, after) ==
  after.content = before.content /\ after.metadata.hasOverlap = FALSE

\* chunk "after" is chunk "before" with the overlap text prepended
Prepended(before, after, overlapText) ==
  /\ after.content = overlapText \o <<"\n", "\n">> \o before.content
  /\ after.metadata.hasOverlap = TRUE

\* C7: overlap injection prepends to chunk i > 0 the last overlapSize
\* characters of chunk i-1, followed by a blank line, exactly when the content
\* of chunk i does not start with the first 50 characters of that text; a chunk
\* that starts with the whole of it is left unchanged with hasOverlap false
OverlapNonDuplication ==
  pc = "filter" =>
    /\ Len(chunksWithOverlap) = Len(allChunks)
    /\ \A i \in 2..Len(allChunks) :
         /\ startsWith(allChunks[i].content,
                       LastChars(allChunks[i-1].content, config.overlapSize))
              => LeftUnchanged(allChunks[i], chunksWithOverlap[i])
         /\ IF startsWith(allChunks[i].content,
                          FirstChars(LastChars(allChunks[i-1].content,
                                               config.overlapSize), 50))
              THEN LeftUnchanged(allChunks[i], chunksWithOverlap[i])
              ELSE Prepended(allChunks[i], chunksWithOverlap[i],
                             LastChars(allChunks[i-1].content, config.overlapSize))

\* a chunk that starts with the first 50 characters of the overlap text, not
\* with all of it, and is left unchanged
OverlapGuardSkips ==
  /\ pc = "filter"
  /\ \E i \in 2..Len(allChunks) :
       /\ ~startsWith(allChunks[i].content,
                      LastChars(allChunks[i-1].content, config.overlapSize))
       /\ startsWith(allChunks[i].content,
                     FirstChars(LastChars(allChunks[i-1].content,
                                          config.overlapSize), 50))
       /\ LeftUnchanged(allChunks[i], chunksWithOverlap[i])

\* the chunks of a block are appended after those of the blocks before it, with
\* the block's contentType and with larger indices
BlockOrderStep ==
  (pc = "chunk" /\ pc' # "threw") =>
    /\ Len(allChunks') >= Len(allChunks)
    /\ SubSeq(allChunks', 1, Len(allChunks)) = allChunks
    /\ \A k \in (Len(allChunks) + 1)..Len(allChunks') :
         /\ allChunks'[k].metadata.contentType = blocks[blockPos].type
         /\ \A j \in 1..(k - 1) : Idx(allChunks'[j]) < Idx(allChunks'[k])

\* overlap injection keeps the positions, indices and contentTypes
OverlapOrderStep ==
  pc = "overlap" =>
    /\ Len(chunksWithOverlap') = Len(allChunks)
    /\ \A k \in 1..Len(allChunks) :
         /\ Idx(chunksWithOverlap'[k]) = Idx(allChunks[k])
         /\ chunksWithOverlap'[k].metadata.contentType
              = allChunks[k].metadata.contentType

\* the final filter keeps the order of the chunks it keeps
FilterOrderStep ==
  pc = "filter" =>
    finalChunks' = SelectSeq(chunksWithOverlap,
                             LAMBDA c : \E i \in 1..Len(finalChunks') :
                                          finalChunks'[i] = c)

\* C8: the chunkIndex values of the returned list are distinct and increase
\* with the position, and the chunks are in the order of their source blocks,
\* each with the contentType of its block
OrderedIndices ==
  /\ [](pc = "returned" =>
          \A i, j \in 1..Len(finalChunks) :
            i < j => Idx(finalChunks[i]) < Idx(finalChunks[j]))
  /\ [][BlockOrderStep /\ OverlapOrderStep /\ FilterOrderStep]_vars

\* a returned list with chunks of several blocks of different contentTypes
OrderedSeveralBlocks ==
  /\ pc = "returned"
  /\ Len(blocks) >= 2
  /\ Len(finalChunks) >= 3
  /\ \E i, j \in 1..Len(finalChunks) :
       /\ i < j
       /\ finalChunks[i].metadata.contentType = "text"
       /\ finalChunks[j].metadata.contentType = "table"

WhitespaceOnly(s) == \A i \in 1..Len(s) : s[i] \in Space

\* C9: semanticChunk never raises; on the empty string and on whitespace-only
\* input segmentation yields no block and the empty list is returned; the
\* table splitter only reads lines[1] of blocks of at least 2 lines
GracefulDegradation ==
  /\ pc # "threw"
  /\ \A p \in 1..Len(blocks) :
       blocks[p].type = "table" => Len(split(blocks[p].text, "\n")) >= 2
  /\ (WhitespaceOnly(text) /\ pc \notin {"start", "segment", "pages"})
       => /\ blocks = <<>>
          /\ finalChunks = <<>>
          /\ pc \in {"returned", "stats"}

\* a whitespace-only input that is not the empty string has returned
WhitespaceReturned ==
  /\ pc = "returned"
  /\ text # <<>>
  /\ WhitespaceOnly(text)
  /\ finalChunks = <<>>

RECURSIVE SumCounts(_, _)
\* the sum of the counts f[k] for k in D
SumCounts(f, D) ==
  IF D = {} THEN 0
  ELSE LET k == CHOOSE x \in D : TRUE IN f[k] + SumCounts(f, D \ {k})

ContentLengths(chunks) == {Len(chunks[i].content) : i \in 1..Len(chunks)}

TotalLength(chunks) == SumOf([i \in 1..Len(chunks) |-> Len(chunks[i].content)])

\* C10: getChunkingStats of the empty list is all zeros with empty tallies; of a
\* non-empty list totalChunks is the number of chunks, minChunkSize and
\* maxChunkSize are the least and greatest content lengths, avgChunkSize is the
\* mean rounded to the nearest integer and lies between them, and the counts
\* of contentTypes and of confidenceLevels each sum to totalChunks
Statistics ==
  pc = "stats" =>
    IF finalChunks = <<>>
      THEN /\ stats.totalChunks = 0 /\ stats.avgChunkSize = 0
           /\ stats.minChunkSize = 0 /\ stats.maxChunkSize = 0
           /\ DOMAIN stats.contentTypes = {}
           /\ DOMAIN stats.confidenceLevels = {}
      ELSE /\ stats.totalChunks = Len(finalChunks)
           /\ stats.minChunkSize \in ContentLengths(finalChunks)
           /\ stats.maxChunkSize \in ContentLengths(finalChunks)
           /\ \A n \in ContentLengths(finalChunks) :
                stats.minChunkSize <= n /\ n <= stats.maxChunkSize
           /\ stats.minChunkSize <= stats.avgChunkSize
           /\ stats.avgChunkSize <= stats.maxChunkSize
           /\ 2 * Abs(stats.avgChunkSize * Len(finalChunks) - TotalLength(finalChunks))
                <= Len(finalChunks)
           /\ SumCounts(stats.contentTypes, DOMAIN stats.contentTypes)
                = stats.totalChunks
           /\ SumCounts(stats.confidenceLevels, DOMAIN stats.confidenceLevels)
                = stats.totalChunks

\* statistics of several chunks of different lengths whose mean is no integer
StatisticsRounded ==
  /\ pc = "stats"
  /\ Len(finalChunks) >= 2
  /\ stats.minChunkSize < stats.avgChunkSize
  /\ stats.avgChunkSize < stats.maxChunkSize
  /\ TotalLength(finalChunks) % Len(finalChunks) # 0
  /\ Cardinality(DOMAIN stats.contentTypes) >= 2

\* C11: a second pass of preprocessText over the result of a first pass
\* changes nothing
CleanupIdempotent == pc = "twice" => recleaned = cleanedText

\* C12: the 5-line pipe-delimited table is segmented as one table block of
\* confidence above 0.4, and semanticChunk with the default config returns
\* exactly one chunk for it, of contentType table
TableScenarioOneChunk ==
  (text = TableScenario /\ config = DEFAULT_CONFIG) =>
    /\ pc \notin {"start", "segment"} =>
         /\ Len(blocks) = 1
         /\ blocks[1].type = "table"
         /\ Above(blocks[1].confidence, 4, 10)
    /\ pc = "returned" =>
         /\ Len(finalChunks) = 1
         /\ finalChunks[1].metadata.contentType = "table"

\* the chunks that the step of ChunkNextBlock appends for its block
NewChunks == SubSeq(allChunks', Len(allChunks) + 1, Len(allChunks'))

\* ChunkNextBlock hands a text or heading block to the sentence splitter
SplitsBySentences ==
  /\ pc = "chunk"
  /\ blocks[blockPos].type \notin {"table", "list"}
  /\ Len(blocks[blockPos].text) > config.maxChunkSize

SentencesOf(block) == keptSentences(matchSentences(block.text))

\* short sentences: one more never takes an undersized accumulator past the
\* maximum
ShortSentences(ts, cfg) ==
  \A i \in 1..Len(ts) : Len(ts[i]) + cfg.minChunkSize <= cfg.maxChunkSize

\* the last sentence of the longest run of sentences from a on whose joined
\* length does not exceed maxChunkSize
longestPrefix(ts, a, cfg) ==
  CHOOSE b \in a..Len(ts) :
    /\ Len(joined(ts, a, b)) <= cfg.maxChunkSize
    /\ b < Len(ts) => Len(joined(ts, a, b + 1)) > cfg.maxChunkSize

RECURSIVE greedy(_, _, _)
greedy(ts, a, cfg) ==
  IF a > Len(ts) THEN <<>>
  ELSE <<joined(ts, a, longestPrefix(ts, a, cfg))>>
         \o greedy(ts, longestPrefix(ts, a, cfg) + 1, cfg)

\* the chunks are the greedy ones, the last two of them merged when the last
\* is a remainder below the minimum
GreedyChunks(new, g) ==
  /\ Len(new) \in {Len(g), Len(g) - 1}
  /\ \A k \in 1..Len(new) :
       new[k].content = IF k = Len(new) /\ Len(new) < Len(g)
                          THEN g[k] \o <<" ">> \o g[k + 1]
                          ELSE g[k]

GreedyStep ==
  (SplitsBySentences /\ ShortSentences(SentencesOf(blocks[blockPos]), config)) =>
    GreedyChunks(NewChunks, greedy(SentencesOf(blocks[blockPos]), 1, config))

SentenceScenarioReturned ==
  (pc = "returned" /\ text = SentenceScenario /\ config = DEFAULT_CONFIG) =>
    /\ Len(finalChunks) = 2
    /\ finalChunks[1].metadata.originalLength <= 1000
    /\ Len(finalChunks[2].content) >= 100

\* C13: "A. B. C. D." repeated to length 1500 is returned under maxChunkSize
\* 1000 and minChunkSize 100 as exactly 2 chunks, the first of pre-overlap
\* length at most 1000 and the second of length at least 100; and a text block
\* of short sentences is split greedily, each closed chunk being the longest
\* run of sentences that does not exceed maxChunkSize
SentenceSplit == []SentenceScenarioReturned /\ [][GreedyStep]_vars

\* the scenario has been split in two and returned
SentenceScenarioSplit ==
  /\ pc = "returned"
  /\ text = SentenceScenario
  /\ Len(allChunks) = 2
  /\ Len(finalChunks) = 2

\* C14: when two calls of semanticChunk interleave step by step, each returns
\* the list it returns when run alone, and the text and the config objects
\* (the shared DEFAULT_CONFIG among them) are as the callers passed them
ConcurrentSafety ==
  /\ heap = InitialHeap
  /\ \A c \in Callers :
       /\ calls[c].text = calls[c].args.text
       /\ calls[c].config = calls[c].args.config
       /\ calls[c].pc = "returned" =>
            calls[c].finalChunks =
              semanticChunk(calls[c].args.text, calls[c].args.pageNumber,
                            InitialHeap[calls[c].args.config])

\* the first call has run and returned several chunks while the second,
\* started before it, is still between its loop and its overlap step
CallReturnedAmidOther ==
  /\ calls[1].pc = "returned"
  /\ Len(calls[1].finalChunks) > 1
  /\ calls[2].pc = "overlap"
  /\ calls[2].chunkIndex > 1
  /\ calls[2].text # calls[1].text

\* the chunks made so far are numbered 0, 1, ... in order, and the counter is
\* their number
NumberedFromZero ==
  pc \in {"chunk", "overlap", "filter", "returned", "stats"} =>
    /\ \A k \in 1..Len(allChunks) : Idx(allChunks[k]) = k - 1
    /\ chunkIndex = Len(allChunks)

\* a block's chunks are numbered consecutively from the counter, which advances
\* by their number
NumberedFromCounter ==
  (pc = "chunk" /\ pc' # "threw") =>
    /\ \A k \in 1..Len(NewChunks) : Idx(NewChunks[k]) = chunkIndex + k - 1
    /\ chunkIndex' = chunkIndex + Len(NewChunks)

\* C15: before overlap injection and the filter, the concatenated per-block
\* chunk lists carry the chunkIndex values 0, 1, ..., N-1 in order: each block's
\* chunks are numbered consecutively from the running counter, and the counter
\* advances by the number of chunks the block produced
SequentialIndexing == []NumberedFromZero /\ [][NumberedFromCounter]_vars

\* the loop has ended over several blocks, one of them split in several chunks
SeveralBlocksNumbered ==
  /\ pc = "overlap"
  /\ Len(blocks) > 1
  /\ Len(allChunks) > Len(blocks)

\* the characters of s that are not whitespace, in order
NonWhitespace(s) == SelectSeq(s, LAMBDA ch : ch \notin Space)

\* the contents of the chunks, one after the other
Contents(chunks) == Flatten([k \in 1..Len(chunks) |-> chunks[k].content])

\* C16: when the text/heading splitter splits an oversized block, the chunks it
\* emits, joined in order, contain every non-whitespace character of the
\* block's text in the original order
TextContentPreserved ==
  [][SplitsBySentences =>
       NonWhitespace(Contents(NewChunks)) = NonWhitespace(blocks[blockPos].text)]_vars

\* the content of a chunk as it was before overlap injection
PreOverlap(chunk) == LastChars(chunk.content, chunk.metadata.originalLength)

\* the text standing before the "\n\n" separator of a chunk with overlap
PrependedText(chunk) ==
  SubSeq(chunk.content, 1, Len(chunk.content) - chunk.metadata.originalLength - 2)

IsSuffix(sub, s) == Len(sub) <= Len(s) /\ LastChars(s, Len(sub)) = sub

\* C17: in the list semanticChunk returns, the text prepended to a chunk with
\* hasOverlap = true is a suffix of the pre-overlap content of the chunk just
\* before it in that list, and the first chunk has hasOverlap = false
OverlapProvenance ==
  pc = "returned" =>
    \A k \in 1..Len(finalChunks) :
      finalChunks[k].metadata.hasOverlap =>
        /\ k > 1
        /\ IsSuffix(PrependedText(finalChunks[k]), PreOverlap(finalChunks[k - 1]))

\* ChunkNextBlock hands a table block to the table splitter, which returns
SplitsByRows ==
  /\ pc = "chunk"
  /\ blocks[blockPos].type = "table"
  /\ Len(blocks[blockPos].text) > config.tableMaxSize
  /\ pc' # "threw"

\* the number of header lines: line 1, and line 2 when it contains - or =
HeaderCount(lines) ==
  IF Len(lines) > 1 /\ (Contains(lines[2], <<"-">>) \/ Contains(lines[2], <<"=">>))
    THEN 2 ELSE 1

\* the lines of a chunk after the first h
LinesAfter(chunk, h) ==
  SubSeq(split(chunk.content, "\n"), h + 1, Len(split(chunk.content, "\n")))

\* the chunks of the table of these lines with h header lines: each starts with
\* the header and goes on with data lines, the data lines of the chunks are
\* those of the table in order, and a chunk over the budget holds one data line
\* that alone is over the budget
TableChunks(new, lines, h, cfg) ==
  /\ \A k \in 1..Len(new) :
       /\ Len(split(new[k].content, "\n")) > h
       /\ SubSeq(split(new[k].content, "\n"), 1, h) = SubSeq(lines, 1, h)
       /\ \/ Len(new[k].content) <= cfg.tableMaxSize
          \/ /\ Len(LinesAfter(new[k], h)) = 1
             /\ Len(LinesAfter(new[k], h)[1]) > cfg.tableMaxSize
  /\ Flatten([k \in 1..Len(new) |-> LinesAfter(new[k], h)])
       = SubSeq(lines, h + 1, Len(lines))

\* C18: every chunk the table splitter emits starts with the block's header
\* (line 1, plus line 2 when it contains - or =) followed by one or more data
\* lines, and has length <= tableMaxSize unless it holds a single data line
\* that alone is longer than tableMaxSize; every data line of the block is in
\* exactly one chunk, in order
TableSplitterBudget ==
  [][SplitsByRows =>
       TableChunks(NewChunks, split(blocks[blockPos].text, "\n"),
                   HeaderCount(split(blocks[blockPos].text, "\n")), config)]_vars

\* ChunkNextBlock hands a list block to the list splitter
SplitsByItems ==
  /\ pc = "chunk"
  /\ blocks[blockPos].type = "list"
  /\ Len(blocks[blockPos].text) > config.maxChunkSize

LinesOf(chunk) == split(chunk.content, "\n")

\* the chunks hold the non-blank lines, whole and in order; a chunk over the
\* maximum is a single line; and the first line of the next chunk would have
\* taken a closed chunk over the maximum
ListChunks(new, lines, cfg) ==
  /\ Flatten([k \in 1..Len(new) |-> LinesOf(new[k])]) = lines
  /\ \A k \in 1..Len(new) :
       /\ new[k].content # <<>>
       /\ Len(new[k].content) <= cfg.maxChunkSize \/ Len(LinesOf(new[k])) = 1
       /\ k < Len(new) =>
            Len(new[k].content) + 1 + Len(LinesOf(new[k + 1])[1]) > cfg.maxChunkSize

\* C19: every chunk the list splitter emits is a newline-joined run of whole,
\* consecutive non-blank lines of the block, every non-blank line is in exactly
\* one chunk in the original order, a chunk is closed only when the next line
\* would take it over maxChunkSize, and a chunk is longer than maxChunkSize
\* only when it is a single line
ListSplitter ==
  [][SplitsByItems => ListChunks(NewChunks, NonBlankLines(blocks[blockPos].text), config)]_vars

\* a list block has been split in several chunks
ListSplit ==
  /\ pc = "overlap"
  /\ Len(blocks) = 1
  /\ blocks[1].type = "list"
  /\ Len(allChunks) > 1

\* the chunks from the k-th on are runs of the sentences from the a-th on,
\* joined by spaces, that use up the sentences; a chunk before the last was
\* closed with at least the minimum in it, before a sentence that would have
\* taken it over the maximum
RECURSIVE ClosedAtMaximum(_, _, _, _, _)
ClosedAtMaximum(new, ts, a, k, cfg) ==
  IF k > Len(new) THEN a = Len(ts) + 1
  ELSE \E b \in a..Len(ts) :
         /\ joined(ts, a, b) = new[k].content
         /\ k < Len(new) =>
              /\ Len(new[k].content) >= cfg.minChunkSize
              /\ Len(new[k].content) + 1 + Len(ts[b + 1]) > cfg.maxChunkSize
         /\ ClosedAtMaximum(new, ts, b + 1, k + 1, cfg)

\* a single undersized chunk has confidence low; otherwise every chunk has the
\* minimum length and the confidence of a split; and every chunk records the
\* length of its content
MinimumOrLow(new, block, cfg) ==
  /\ IF Len(new) = 1 /\ Len(new[1].content) < cfg.minChunkSize
       THEN new[1].metadata.confidence = "low"
       ELSE \A k \in 1..Len(new) :
              /\ Len(new[k].content) >= cfg.minChunkSize
              /\ new[k].metadata.confidence =
                   IF Above(block.confidence, 7, 10) THEN "high" ELSE "medium"
  /\ \A k \in 1..Len(new) : new[k].metadata.originalLength = Len(new[k].content)

\* C20: the text/heading splitter closes a chunk mid-block only when the next
\* sentence would take it over maxChunkSize and it already has minChunkSize
\* characters; every chunk it emits has length >= minChunkSize and confidence
\* high or medium after the block's confidence, except a single undersized
\* chunk for the whole block, which has confidence low; an undersized final
\* remainder is appended after a space to the last chunk, whose originalLength
\* becomes the length of its new content
TextSplitterMinimum ==
  [][SplitsBySentences =>
       /\ MinimumOrLow(NewChunks, blocks[blockPos], config)
       /\ ClosedAtMaximum(NewChunks, SentencesOf(blocks[blockPos]), 1, 1, config)]_vars

\* the last sentence of the block was below the minimum and has been appended
\* to the chunk closed before it
RemainderMerged ==
  /\ pc = "overlap"
  /\ Len(blocks) = 1
  /\ blocks[1].type \notin {"table", "list"}
  /\ Len(allChunks) > 1
  /\ \E s \in {SentencesOf(blocks[1])[Len(SentencesOf(blocks[1]))]} :
       \E last \in {allChunks[Len(allChunks)]} :
         /\ Len(s) < config.minChunkSize
         /\ IsSuffix(<<" ">> \o s, last.content)
         /\ Len(last.content) - Len(s) - 1 >= config.minChunkSize
         /\ Len(last.content) > config.maxChunkSize
         /\ last.metadata.originalLength = Len(last.content)

\* the budget of a block: tableMaxSize for a table, maxChunkSize otherwise
BudgetOf(block, cfg) ==
  IF block.type = "table" THEN cfg.tableMaxSize ELSE cfg.maxChunkSize

\* ChunkNextBlock takes a block that fits its budget
FitsBudget == pc = "chunk" /\ Len(blocks[blockPos].text) <= BudgetOf(blocks[blockPos], config)

\* 10 * score compared with 7 * maxScore and 4 * maxScore
ThreeLevels(c) ==
  IF 10 * c.num > 7 * c.den THEN "high"
  ELSE IF 10 * c.num > 4 * c.den THEN "medium"
  ELSE "low"

\* C21: a block of length <= its budget yields exactly one chunk whose content
\* is the block's text and whose confidence is high above 0.7, medium above 0.4
\* and low otherwise; the single chunk of a text block is high and that of a
\* heading block is high or medium
SingleFitConfidence ==
  [][FitsBudget =>
       /\ Len(NewChunks) = 1
       /\ NewChunks[1].content = blocks[blockPos].text
       /\ NewChunks[1].metadata.confidence = ThreeLevels(blocks[blockPos].confidence)
       /\ blocks[blockPos].type = "text" => NewChunks[1].metadata.confidence = "high"
       /\ blocks[blockPos].type = "heading" =>
            NewChunks[1].metadata.confidence \in {"high", "medium"}]_vars

\* a list block that fits has been made a chunk of confidence low
SingleFitLow ==
  /\ pc = "overlap"
  /\ Len(blocks) = 1
  /\ blocks[1].type = "list"
  /\ Len(blocks[1].text) <= config.maxChunkSize
  /\ Len(allChunks) = 1
  /\ allChunks[1].metadata.confidence = "low"

\* the chunk as chunkBlock made it, and the chunk made just before it
MadeAs(chunk) == allChunks[Idx(chunk) + 1]
MadeBefore(chunk) == allChunks[Idx(chunk)]

\* the number of characters taken from a chunk content as overlap
OverlapTaken(content, overlapSize) ==
  IF Len(content) < overlapSize THEN Len(content) ELSE overlapSize

\* C22: for every chunk semanticChunk returns, hasOverlap is true exactly when
\* overlap text was prepended, and originalLength is the length of the content
\* before overlap: the content has length originalLength without overlap, and
\* originalLength + 2 + min(overlapSize, length of the previous chunk's
\* pre-overlap content) with it
OverlapMetadata ==
  pc = "returned" =>
    \A k \in 1..Len(finalChunks) :
      \E c \in {finalChunks[k]} :
        /\ c.metadata.originalLength = Len(MadeAs(c).content)
        /\ c.metadata.hasOverlap <=> c.content # MadeAs(c).content
        /\ ~c.metadata.hasOverlap => Len(c.content) = c.metadata.originalLength
        /\ c.metadata.hasOverlap =>
             /\ Idx(c) > 0
             /\ LastChars(c.content, c.metadata.originalLength) = MadeAs(c).content
             /\ Len(c.content) = c.metadata.originalLength + 2
                  + OverlapTaken(MadeBefore(c).content, config.overlapSize)

\* returned: a chunk with overlap whose predecessor also has overlap and is
\* longer than overlapSize, and a chunk without overlap
OverlapAfterOverlap ==
  /\ pc = "returned"
  /\ \E k \in 2..Len(finalChunks) :
       /\ finalChunks[k].metadata.hasOverlap
       /\ finalChunks[k - 1].metadata.hasOverlap
       /\ finalChunks[k - 1].metadata.originalLength > config.overlapSize
  /\ \E k \in 1..Len(finalChunks) : ~finalChunks[k].metadata.hasOverlap

\* segmentIntoBlocks has returned the blocks of the cleaned text
Segmented == pc \in {"chunk", "overlap", "filter", "returned", "stats"}

\* lines a..b, counted from 0, of the text t
LinesAt(t, a, b) == SubSeq(split(t, "\n"), a + 1, b + 1)

\* C23: startLine and endLine of every block segmentIntoBlocks returns are the
\* 0-based offsets of the block's lines in the cleaned document: the lines
\* startLine..endLine of the cleaned text are the lines of the block's text
BlockLineOffsets ==
  Segmented =>
    \A k \in 1..Len(blocks) :
      /\ blocks[k].endLine < Len(split(cleanedText, "\n"))
      /\ LinesAt(cleanedText, blocks[k].startLine, blocks[k].endLine)
           = split(blocks[k].text, "\n")

\* C24: every block segmentIntoBlocks returns has startLine <= endLine with
\* endLine - startLine + 1 equal to the number of its lines, and each block
\* starts after the end of the block before it
DisjointLineRanges ==
  Segmented =>
    /\ \A k \in 1..Len(blocks) :
         /\ blocks[k].startLine <= blocks[k].endLine
         /\ blocks[k].endLine - blocks[k].startLine + 1
              = Len(split(blocks[k].text, "\n"))
    /\ \A k \in 2..Len(blocks) : blocks[k].startLine > blocks[k - 1].endLine

\* two blocks, the first of several lines
SeveralLinesThenBlock ==
  /\ Segmented
  /\ Len(blocks) = 2
  /\ blocks[1].endLine > blocks[1].startLine
  /\ blocks[2].startLine > 0

\* the trimmed paragraphs of t that are neither empty nor header/footer noise
KeptParagraphs(t) ==
  SelectSeq([i \in 1..Len(splitParagraphs(t)) |-> trim(splitParagraphs(t)[i])],
            LAMBDA para : para # <<>> /\ ~detectHeaderFooter(para))

\* a confidence in (0, 1] that is 1.0 for text, above 0.4 for heading and
\* table and above 0.35 for list
ConfidenceInRange(block) ==
  /\ block.confidence.num > 0
  /\ block.confidence.num <= block.confidence.den
  /\ block.type = "text" => block.confidence.num = block.confidence.den
  /\ block.type \in {"heading", "table"} =>
       10 * block.confidence.num > 4 * block.confidence.den
  /\ block.type = "list" => 100 * block.confidence.num > 35 * block.confidence.den

\* C25: segmentIntoBlocks emits, in document order, one block for every
\* non-empty paragraph that is not header/footer noise, and every emitted block
\* has a confidence in (0, 1]: exactly 1.0 for text, above 0.4 for heading and
\* table, above 0.35 for list
SegmentationOutput ==
  Segmented =>
    /\ Len(blocks) = Len(KeptParagraphs(cleanedText))
    /\ \A k \in 1..Len(blocks) :
         /\ blocks[k].text = KeptParagraphs(cleanedText)[k]
         /\ ConfidenceInRange(blocks[k])

\* a noise paragraph was dropped and the table after it emitted
NoiseDroppedBeforeTable ==
  /\ Segmented
  /\ Len(splitParagraphs(cleanedText)) = 2
  /\ detectHeaderFooter(splitParagraphs(cleanedText)[1])
  /\ Len(blocks) = 1
  /\ blocks[1].type = "table"

\* segmentIntoBlocks has just returned
JustSegmented ==
  \/ pc = "chunk" /\ blockPos = 1
  \/ pc = "returned" /\ blocks = <<>>

\* the trimmed non-empty paragraphs of t
Spans(t) ==
  SelectSeq([i \in 1..Len(splitParagraphs(t)) |-> trim(splitParagraphs(t)[i])],
            LAMBDA para : para # <<>>)

\* the type of the first check of the cascade that accepts the span
FirstMatch(span) ==
  IF detectHeaderFooter(span) THEN "noise"
  ELSE IF detectHeading(span).isHeading THEN "heading"
  ELSE IF detectTable(span).isTable THEN "table"
  ELSE IF detectList(span).isList THEN "list"
  ELSE "text"

\* C26: analyzeContentBlock is a first-match cascade in the order noise (text,
\* confidence 0), heading, table, list, text (confidence 1.0): a noise span gets
\* no positive classification whatever the later detectors say, a span that
\* the table and the list detector both accept is a table, and every span gets
\* one of the four types
ClassificationPriority ==
  JustSegmented =>
    /\ \A i \in 1..Len(Spans(cleanedText)) :
         \E span \in {Spans(cleanedText)[i]} :
           \E b \in {analyzeContentBlock(span, 0, 0)} :
             /\ b.type \in {"text", "heading", "table", "list"}
             /\ FirstMatch(span) = "noise" => b.type = "text" /\ b.confidence.num = 0
             /\ FirstMatch(span) # "noise" =>
                  b.type = FirstMatch(span) /\ b.confidence.num > 0
             /\ FirstMatch(span) = "text" => b.confidence.num = b.confidence.den
    /\ \A k \in 1..Len(blocks) : blocks[k].type = FirstMatch(blocks[k].text)

\* a block that the table and the list detector both accept has been emitted
\* as a table
TableBeforeList ==
  /\ JustSegmented
  /\ \E k \in 1..Len(blocks) :
       /\ blocks[k].type = "table"
       /\ detectTable(blocks[k].text).isTable
       /\ detectList(blocks[k].text).isList

\* the beginnings of a URL
UrlPrefixes ==
  { <<"h","t","t","p",":","/","/">>, <<"h","t","t","p","s",":","/","/">>,
    <<"w","w","w",".">> }

\* a single line that is only a URL: a prefix and an address without white space
OnlyUrl(span) ==
  /\ \A i \in 1..Len(span) : span[i] \notin Space
  /\ \E prefix \in UrlPrefixes :
       startsWith(toLowerCase(span), prefix) /\ Len(span) > Len(prefix)

\* C27: a block that is a single line holding only a URL or only an email
\* address is matched by the header/footer check and is not among the blocks
\* segmentIntoBlocks returns
LinkNoiseExcluded ==
  JustSegmented =>
    \A i \in 1..Len(Spans(cleanedText)) :
      \E span \in {Spans(cleanedText)[i]} :
        (OnlyUrl(span) \/ IsMailLine(span)) =>
          /\ detectHeaderFooter(span)
          /\ \A k \in 1..Len(blocks) : blocks[k].text # span

\* the number of lines of the text whose trimmed form is l
Occurrences(lines, l) == Cardinality({i \in 1..Len(lines) : trim(lines[i]) = l})

\* a line whose trimmed form has 5 to 99 characters and occurs more than twice
RepeatedLine(lines, line) ==
  /\ Len(trim(line)) >= 5
  /\ Len(trim(line)) <= 99
  /\ Occurrences(lines, trim(line)) > 2

\* C28: removeRepeatedSections removes every occurrence of every line whose
\* trimmed form has 5 to 99 characters and occurs more than twice in the text,
\* and keeps the other lines unchanged and in order
RepeatedLinesRemoved ==
  pc = "repeated removed" =>
    cleanedText
      = join(SelectSeq(split(text, "\n"),
                       LAMBDA line : ~RepeatedLine(split(text, "\n"), line)),
             <<"\n">>)

\* a line that starts, after optional white space, with a dash or bullet glyph
\* run or a numbered marker, followed by white space and the item
StartsWithMarker(line) ==
  \/ IsBulletLine(line)
  \/ IsNumberedLine(line)
  \/ \E G \in {BulletGlyph, DashGlyph} :
       Plus(line, Plus(line, Star(line, {1}, Space), G), Space) # {}

\* C29: normalizeLists rewrites only the marker prefix of the lines that start
\* with a marker: the text has as many lines after it as before, and a line
\* that does not start with a marker is unchanged, so no blank line before a
\* list item is removed and no marker-only line is joined with the next line
ListNormalizationLineLocal ==
  pc = "lists normalized" =>
    /\ Len(split(cleanedText, "\n")) = Len(split(text, "\n"))
    /\ \A i \in 1..Len(split(text, "\n")) :
         ~StartsWithMarker(split(text, "\n")[i]) =>
           split(cleanedText, "\n")[i] = split(text, "\n")[i]

\* C30: for every block of segmentIntoBlocks, chunkBlock returns (it does not
\* raise) at least one chunk, and its chunks have non-empty content, whichever
\* path is taken; in particular the table splitter returns no empty list
EveryBlockYieldsOutput ==
  [][pc = "chunk" =>
       /\ pc' # "threw"
       /\ Len(NewChunks) >= 1
       /\ \A k \in 1..Len(NewChunks) : NewChunks[k].content # <<>>]_vars

\* an oversized table block has gone through the table splitter
OversizedTableChunked ==
  /\ pc = "overlap"
  /\ Len(blocks) = 1
  /\ blocks[1].type = "table"
  /\ Len(blocks[1].text) > config.tableMaxSize
  /\ Len(allChunks) > 1

====
